---- MODULE Spec2Model ----
(***************************************************************************)
(* ORC stripe decoding (cpp/src/io/orc/stripe_data.cu): the byte stream    *)
(* window, the base-128 varint reader, the integer RLE v1 / v2 decoders,   *)
(* the byte RLE decoder, and the two kernels that drive them.              *)
(*                                                                         *)
(* Machine words are kept at their width.  A w-bit word is the set of the  *)
(* positions of its 1 bits (bit 0 least significant): 5 is {0,2}.  The     *)
(* bitwise operators of the source are then set operations, and a value    *)
(* of 2^31 or more, which is no TLC integer, is still a value here.        *)
(* Stream positions, counts and single bytes are small and are integers.   *)
(*                                                                         *)
(* The lanes of a thread block run the source in lock step between         *)
(* barriers; an operator below gives the memory a phase leaves behind      *)
(* once every lane has run it.                                             *)
(***************************************************************************)
EXTENDS Integers, Sequences, FiniteSets, TLC

VARIABLES phase, inp, bs, bs2, vals, out, chunk, top, gmem

vars == <<phase, inp, bs, bs2, vals, out, chunk, top, gmem>>

----------------------------------------------------------------------------
(* Program constants *)

LOG2_BYTESTREAM_BFRSZ == 13
BYTESTREAM_BFRSZ == 2^LOG2_BYTESTREAM_BFRSZ
LOG2_NWARPS == 5
LOG2_NTHREADS == LOG2_NWARPS + 5
NWARPS == 2^LOG2_NWARPS
NTHREADS == 2^LOG2_NTHREADS

----------------------------------------------------------------------------
(* Words as sets of bit positions *)

Min(a, b) == IF a < b THEN a ELSE b
Max(a, b) == IF a > b THEN a ELSE b

\* the word of a natural number below 2^31
BVFromNat(n) == {i \in 0..30 : (n \div 2^i) % 2 = 1}

\* the natural number of a word below 2^31
RECURSIVE BVToNat(_)
BVToNat(a) == IF a = {} THEN 0
              ELSE LET i == CHOOSE x \in a : TRUE IN 2^i + BVToNat(a \ {i})

BVAnd(a, b) == a \cap b
BVOr(a, b) == a \cup b
BVXor(a, b) == (a \ b) \cup (b \ a)
BVNot(a, w) == (0..(w-1)) \ a
BVTrunc(a, w) == a \cap (0..(w-1))
BVShl(a, k, w) == {i + k : i \in a} \cap (0..(w-1))
\* a >> k; a shift count that is negative as an int is a huge unsigned count,
\* for which the device shifts every bit out
BVShr(a, k) == IF k < 0 THEN {} ELSE {i - k : i \in {j \in a : j >= k}}

\* a + b modulo 2^w: the carries are added until none is left
RECURSIVE BVAdd(_, _, _)
BVAdd(a, b, w) == IF b = {} THEN BVTrunc(a, w)
                  ELSE BVAdd(BVXor(a, b), BVShl(BVAnd(a, b), 1, w), w)

BVNeg(a, w) == BVAdd(BVNot(a, w), {0}, w)

\* the two's complement word of a (possibly negative) small integer
BVFromInt(n, w) == IF n >= 0 THEN BVFromNat(n) ELSE BVNot(BVFromNat(-n - 1), w)

\* unsigned a > b
BVGt(a, b) == /\ a # b
              /\ \E i \in a \ b : \A j \in b \ a : j < i

\* the sign of a w-bit word read as signed
BVNegative(a, w) == (w - 1) \in a

\* (u >> 1) ^ -(u & 1), the zig-zag decoding the signed readers apply
ZigZagDecode(u, w) == IF 0 \in u THEN BVNot(BVShr(u, 1), w) ELSE BVShr(u, 1)

\* width in bits of an element type, and whether it is a signed type
TypeBits(T) == IF T \in {"u32", "i32"} THEN 32 ELSE 64
TypeSigned(T) == T \in {"i32", "i64"}
ElementTypes == {"u32", "i32", "u64", "i64"}

----------------------------------------------------------------------------
(* Byte stream: orc_bytestream_s and its readers *)

\* A stream in device memory: its bytes, the low 3 bits of its address (ofs),
\* and pad, the value of every byte around it that is not the stream's own
\* and of every buffer slot that no fill has written.
MemByte(strm, p) ==
    IF p >= strm.ofs /\ p < strm.ofs + Len(strm.bytes)
    THEN strm.bytes[p - strm.ofs + 1]
    ELSE strm.pad

EmptyBuf == [s \in {} |-> 0]

\* bytestream_init: base is aligned down, pos is the stream's first byte
bytestream_init(strm) ==
    LET len == Len(strm.bytes)
        pos == strm.ofs
    IN  [strm |-> strm,
         pos  |-> IF len > 0 THEN pos ELSE 0,
         len  |-> ((len + pos + 7) \div 8) * 8,
         buf  |-> EmptyBuf]

\* a variant of bytestream_flush_bytes that does not stop at the end of the
\* stream
bytestream_flush_bytes_unclamped(b, bytes_consumed) ==
    LET pos_new == b.pos + bytes_consumed
    IN  [bs |-> [b EXCEPT !.pos = pos_new],
         count |-> (pos_new \div 8) - (b.pos \div 8)]

\* bytestream_flush_bytes: the new position and the number of 64-bit slots
bytestream_flush_bytes(b, bytes_consumed) ==
    LET pos_new == Min(b.pos + bytes_consumed, b.len)
    IN  [bs |-> [b EXCEPT !.pos = pos_new],
         count |-> (pos_new \div 8) - (b.pos \div 8)]

\* bytestream_fill: lane t < count copies the 64-bit word (pos >> 3) + t of the
\* stream into the slot of that index; buf maps a slot to the word it holds
bytestream_fill(b, pos, count) ==
    LET n == Min(count, NTHREADS)
        written == {((pos \div 8) + t) % (BYTESTREAM_BFRSZ \div 8) : t \in 0..(n-1)}
        WordOf(s) == CHOOSE p8 \in (pos \div 8)..((pos \div 8) + n - 1) :
                        p8 % (BYTESTREAM_BFRSZ \div 8) = s
    IN  [b EXCEPT !.buf = [s \in (DOMAIN b.buf) \cup written |->
                              IF s \in written THEN WordOf(s) ELSE b.buf[s]]]

bytestream_initbuf(b) ==
    bytestream_fill(b, 0, Min(b.len, BYTESTREAM_BFRSZ) \div 8)

bytestream_readbyte(b, pos) ==
    LET p == pos % BYTESTREAM_BFRSZ
        s == p \div 8
    IN  IF s \in DOMAIN b.buf THEN MemByte(b.strm, 8 * b.buf[s] + (p % 8))
        ELSE b.strm.pad

\* buf.u32[i]: four buffer bytes, little endian
buf_u32(b, i) ==
    UNION {BVShl(BVFromNat(bytestream_readbyte(b, 4 * i + k)), 8 * k, 32) : k \in 0..3}

\* the CUDA intrinsics the readers use
funnelshift_r(lo, hi, shift) ==
    BVTrunc(BVShr(lo \cup BVShl(hi, 32, 64), shift % 32), 32)
funnelshift_l(lo, hi, shift) ==
    BVShr(BVShl(lo \cup BVShl(hi, 32, 64), shift % 32, 64), 32)
byte_perm_0123(x) ==
    UNION {BVShl(BVTrunc(BVShr(x, 8 * k), 8), 8 * (3 - k), 32) : k \in 0..3}

bytestream_readu32(b, pos) ==
    LET a == buf_u32(b, (pos % BYTESTREAM_BFRSZ) \div 4)
        c == buf_u32(b, ((pos + 4) % BYTESTREAM_BFRSZ) \div 4)
    IN  funnelshift_r(a, c, (pos % 4) * 8)

bytestream_readu64(b, pos) ==
    LET a == buf_u32(b, (pos % BYTESTREAM_BFRSZ) \div 4)
        c == buf_u32(b, ((pos + 4) % BYTESTREAM_BFRSZ) \div 4)
        d == buf_u32(b, ((pos + 8) % BYTESTREAM_BFRSZ) \div 4)
        lo32 == funnelshift_r(a, c, (pos % 4) * 8)
        hi32 == funnelshift_r(c, d, (pos % 4) * 8)
    IN  BVShl(hi32, 32, 64) \cup lo32

\* index of the 32-bit buffer word holding bit bitpos:
\* (bitpos & ((BYTESTREAM_BFRSZ - 1) * 8)) >> 5
BitWord(bitpos) == (bitpos % (BYTESTREAM_BFRSZ * 8)) \div 32

\* numbits big-endian bits at bitpos, at most 32
bytestream_readbits(b, bitpos, numbits) ==
    LET a == byte_perm_0123(buf_u32(b, BitWord(bitpos)))
        c == byte_perm_0123(buf_u32(b, BitWord(bitpos + 32)))
    IN  BVShr(funnelshift_l(c, a, bitpos % 32), 32 - numbits)

\* numbits big-endian bits at bitpos, at most 64
bytestream_readbits64(b, bitpos, numbits) ==
    LET a == byte_perm_0123(buf_u32(b, BitWord(bitpos)))
        c == byte_perm_0123(buf_u32(b, BitWord(bitpos + 32)))
        d == byte_perm_0123(buf_u32(b, BitWord(bitpos + 64)))
        hi32 == funnelshift_l(c, a, bitpos % 32)
        lo32 == funnelshift_l(d, c, bitpos % 32)
    IN  BVShr(BVShl(hi32, 32, 64) \cup lo32, 64 - numbits)

\* the four bytestream_readbe overloads, chosen by the type of the result
bytestream_readbe(b, bitpos, numbits, T) ==
    LET u == IF TypeBits(T) = 32 THEN bytestream_readbits(b, bitpos, numbits)
             ELSE bytestream_readbits64(b, bitpos, numbits)
    IN  IF TypeSigned(T) THEN ZigZagDecode(u, TypeBits(T)) ELSE u

----------------------------------------------------------------------------
(* Base-128 varints *)

\* __ffs: 1 + the position of the lowest 1 bit, 0 for the zero word
ffs(x) == IF x = {} THEN 0 ELSE 1 + (CHOOSE i \in x : \A j \in x : i <= j)

\* varint_length<T>; W is 8 * sizeof(T)
varint_length(b, pos, W) ==
    IF bytestream_readbyte(b, pos) > 127
    THEN LET next32 == bytestream_readu32(b, pos)
             len == 1 + (ffs({7, 15, 23, 31} \ next32) \div 8)
         IN  IF W > 32 /\ len = 5
             THEN LET n2 == bytestream_readu32(b, pos + 4)
                  IN  len + (ffs({7, 15, 23, 31} \ n2) \div 8)
             ELSE len
    ELSE 1

\* v = (v & (2^keep - 1)) | (b << sh) on a uint32_t
VarintStep(v, keep, byte, sh) ==
    BVOr(BVTrunc(v, keep), BVShl(BVFromNat(byte), sh, 32))

\* the upper word of a varint of more than 5 bytes (sizeof(T) > 4); b4 is the
\* fifth byte, pos the position after it; gives the position and the word
decode_varint_hi(b, pos, b4) ==
    LET v0 == BVTrunc(BVShr(BVFromNat(b4), 4), 3)
        b5 == bytestream_readbyte(b, pos)
        v5 == BVOr(v0, BVShl(BVFromNat(b5), 3, 32))
    IN  IF b5 <= 127 THEN [pos |-> pos + 1, hi |-> v5]
        ELSE
        LET b6 == bytestream_readbyte(b, pos + 1)
            v6 == VarintStep(v5, 10, b6, 10)
        IN  IF b6 <= 127 THEN [pos |-> pos + 2, hi |-> v6]
            ELSE
            LET b7 == bytestream_readbyte(b, pos + 2)
                v7 == VarintStep(v6, 17, b7, 17)
            IN  IF b7 <= 127 THEN [pos |-> pos + 3, hi |-> v7]
                ELSE
                LET b8 == bytestream_readbyte(b, pos + 3)
                    v8 == VarintStep(v7, 24, b8, 24)
                IN  IF b8 <= 127 THEN [pos |-> pos + 4, hi |-> v8]
                    ELSE [pos |-> pos + 5, hi |-> v8]

\* decode_varint<T> (the template): the position after the varint and the
\* unsigned result; W is 8 * sizeof(T)
decode_varint_T(b, pos, W) ==
    LET b0 == bytestream_readbyte(b, pos)
        v0 == BVFromNat(b0)
    IN  IF b0 <= 127 THEN [pos |-> pos + 1, result |-> v0]
        ELSE
        LET b1 == bytestream_readbyte(b, pos + 1)
            v1 == VarintStep(v0, 7, b1, 7)
        IN  IF b1 <= 127 THEN [pos |-> pos + 2, result |-> v1]
            ELSE
            LET b2 == bytestream_readbyte(b, pos + 2)
                v2 == VarintStep(v1, 14, b2, 14)
            IN  IF b2 <= 127 THEN [pos |-> pos + 3, result |-> v2]
                ELSE
                LET b3 == bytestream_readbyte(b, pos + 3)
                    v3 == VarintStep(v2, 21, b3, 21)
                IN  IF b3 <= 127 THEN [pos |-> pos + 4, result |-> v3]
                    ELSE
                    LET b4 == bytestream_readbyte(b, pos + 4)
                        v4 == VarintStep(v3, 28, b4, 28)
                    IN  IF W > 32 /\ b4 > 127
                        THEN LET h == decode_varint_hi(b, pos + 5, b4)
                             IN  [pos |-> h.pos,
                                  result |-> BVOr(BVShl(h.hi, 32, 64), v4)]
                        ELSE [pos |-> pos + 5, result |-> v4]

\* decode_varint as overload resolution picks it for a result of type T that
\* is a plain local: the int32_t / int64_t overloads zig-zag decode
decode_varint(b, pos, T) ==
    LET r == decode_varint_T(b, pos, TypeBits(T))
    IN  IF TypeSigned(T)
        THEN [pos |-> r.pos, result |-> ZigZagDecode(r.result, TypeBits(T))]
        ELSE r

----------------------------------------------------------------------------
NoVals == [i \in {} |-> {}]

(* Decoders.  Each gives [bs, vals, num]: the stream after the flush and    *)
(* refill, every element of vals[] the invocation wrote (index -> word),    *)
(* and the returned count.                                                  *)

\* f with f[i] = x
Put(f, i, x) == [j \in (DOMAIN f) \cup {i} |-> IF j = i THEN x ELSE f[j]]

\* g laid over f
Over(g, f) == [j \in (DOMAIN f) \cup (DOMAIN g) |-> IF j \in DOMAIN g THEN g[j] ELSE f[j]]

\* a variant of scan_maxpos that leaves the length of the stream out
scan_maxpos_window(b) == b.pos + (BYTESTREAM_BFRSZ - 8)

\* maxpos of the run scans: min(bs->len, bs->pos + (BYTESTREAM_BFRSZ - 8u))
scan_maxpos(b) == Min(b.len, b.pos + (BYTESTREAM_BFRSZ - 8))

\* rle->fill_pos = bs->pos; rle->fill_count = bytestream_flush_bytes(bs,
\* lastpos - bs->pos); ...; bytestream_fill(bs, rle->fill_pos, rle->fill_count, t)
flush_and_fill(b, lastpos) ==
    LET f == bytestream_flush_bytes(b, lastpos - b.pos)
    IN  bytestream_fill(f.bs, b.pos, f.count)

(* ---- Integer_RLEv1 ---- *)

\* the do-while over the n literals of a block: the positions of literals
\* i..n-1, then the position after the block (the loop is cut into stretches
\* of 16 iterations to keep the evaluation shallow)
RECURSIVE rlev1_literal_pos(_, _, _, _, _)
rlev1_literal_pos(b, W, pos, i, n) ==
    IF n - i > 16
    THEN LET first == rlev1_literal_pos(b, W, pos, i, i + 16)
         IN  SubSeq(first, 1, 16) \o rlev1_literal_pos(b, W, first[17], i + 16, n)
    ELSE LET pos1 == pos + varint_length(b, pos, W)
         IN  IF i + 1 < n THEN <<pos>> \o rlev1_literal_pos(b, W, pos1, i + 1, n)
             ELSE <<pos, pos1>>

\* vals[numvals + i] = pos for each literal; gives the position after the
\* block and vals
rlev1_literals(b, W, pos, n, numvals, v) ==
    LET ps == rlev1_literal_pos(b, W, pos, 0, n)
    IN  [pos |-> ps[n + 1],
         v |-> Over([j \in numvals..(numvals + n - 1) |-> ps[j - numvals + 1] % 65536], v)]

\* lane 0 finds the runs; st = [lastpos, numvals, run_data, v], where v holds
\* what the scan wrote to vals[] (stream positions)
RECURSIVE rlev1_scan(_, _, _, _, _)
rlev1_scan(b, W, maxvals, maxpos, st) ==
    IF ~(st.numvals < maxvals /\ Len(st.run_data) < NWARPS * 12) THEN st
    ELSE
    LET c == bytestream_readbyte(b, st.lastpos)
    IN  IF c <= 127
        THEN \* run
             LET n == c + 3
                 delta == bytestream_readbyte(b, st.lastpos + 1)
                 pos2 == st.lastpos + 2
                 v1 == Put(st.v, st.numvals, pos2 % 65536)
                 pos3 == pos2 + varint_length(b, pos2, W)
             IN  IF st.numvals + n > maxvals THEN st
                 ELSE IF pos3 > maxpos THEN [st EXCEPT !.v = v1]
                 ELSE rlev1_scan(b, W, maxvals, maxpos,
                        [lastpos |-> pos3, numvals |-> st.numvals + n, v |-> v1,
                         run_data |-> Append(st.run_data,
                             [delta |-> delta, n |-> n, first_val |-> st.numvals])])
        ELSE \* literals
             LET n == 256 - c
                 lit == rlev1_literals(b, W, st.lastpos + 1, n, st.numvals, st.v)
             IN  IF st.numvals + n > maxvals THEN st
                 ELSE IF lit.pos > maxpos THEN [st EXCEPT !.v = lit.v]
                 ELSE rlev1_scan(b, W, maxvals, maxpos,
                        [st EXCEPT !.lastpos = lit.pos, !.numvals = st.numvals + n,
                                   !.v = lit.v])

\* run_data unpacked: n = (run_data >> 16) & 0xff, delta = run_data >> 24
\* (arithmetic), base = run_data & 0x3ff
rlev1_run_n(rd) == rd.n % 256
rlev1_run_delta(rd) == IF rd.delta >= 128 THEN rd.delta - 256 ELSE rd.delta
rlev1_run_base(rd) == rd.first_val % 1024

\* "Expand the runs": slot base + i, i in 1..n-1, gets ((delta * i) << 16) | pos
RECURSIVE rlev1_expand(_, _, _)
rlev1_expand(run_data, k, v) ==
    IF k > Len(run_data) THEN v
    ELSE LET rd == run_data[k]
             base == rlev1_run_base(rd)
             pos == v[base] % 65536
             e == [j \in {base + i : i \in 1..(rlev1_run_n(rd) - 1)} |->
                      (rlev1_run_delta(rd) * (j - base)) * 65536 + pos]
         IN  rlev1_expand(run_data, k + 1, Over(e, v))

\* lane t < numvals: pos = vals[t]; delta = pos >> 16; decode_varint(bs, pos, v);
\* vals[t] = v + delta
rlev1_value(b, T, packed) ==
    LET delta == IF packed >= 0 THEN packed \div 65536
                 ELSE -((-packed + 65535) \div 65536)
        pos == packed - delta * 65536
        d == decode_varint(b, pos, T)
    IN  BVAdd(d.result, BVFromInt(delta, TypeBits(T)), TypeBits(T))

\* the scan by lane 0 (st), the expansion of the runs (ex), the decode of one
\* value per lane, the flush and refill of the buffer
rlev1_decode(b, T, st, ex) ==
    [bs   |-> flush_and_fill(b, st.lastpos),
     vals |-> [t \in DOMAIN ex |->
                 IF t < st.numvals /\ t < NTHREADS THEN rlev1_value(b, T, ex[t])
                 ELSE BVFromInt(ex[t], TypeBits(T))],
     num  |-> st.numvals]

Integer_RLEv1(b, maxvals, T) ==
    CHOOSE r \in
       {rlev1_decode(b, T, st, rlev1_expand(st.run_data, 1, st.v)) :
           st \in {rlev1_scan(b, TypeBits(T), maxvals, scan_maxpos(b),
                      [lastpos |-> b.pos, numvals |-> 0, run_data |-> <<>>,
                       v |-> NoVals])}} : TRUE

(* ---- Byte_RLE ---- *)

\* lane 0 finds the runs; st = [lastpos, numvals, runs], runs the pairs
\* (runs_pos, runs_loc)
RECURSIVE byterle_scan(_, _, _, _)
byterle_scan(b, maxvals, maxpos, st) ==
    IF ~(st.numvals < maxvals /\ Len(st.runs) < NWARPS) THEN st
    ELSE
    LET c == bytestream_readbyte(b, st.lastpos)
        n == IF c <= 127 THEN c + 3 ELSE 256 - c
        pos == IF c <= 127 THEN st.lastpos + 2 ELSE st.lastpos + 1 + n
    IN  IF pos > maxpos \/ st.numvals + n > maxvals THEN st
        ELSE byterle_scan(b, maxvals, maxpos,
               [lastpos |-> pos, numvals |-> st.numvals + n,
                runs |-> Append(st.runs, [pos |-> st.lastpos, loc |-> st.numvals])])

\* a variant of byterle_run that reads a literal block as a run (every value
\* is the byte after the control byte)
byterle_run_as_repeat(b, run) ==
    LET c == bytestream_readbyte(b, run.pos)
        n == IF c <= 127 THEN c + 3 ELSE 256 - c
    IN  [j \in {run.loc + i : i \in 0..(n - 1)} |->
            BVFromNat(bytestream_readbyte(b, run.pos + 1))]

\* the bytes one run expands to: vals[loc + i] = byte at pos + (i & literal_mask)
byterle_run(b, run) ==
    LET c == bytestream_readbyte(b, run.pos)
        n == IF c <= 127 THEN c + 3 ELSE 256 - c
    IN  [j \in {run.loc + i : i \in 0..(n - 1)} |->
            BVFromNat(bytestream_readbyte(b,
                run.pos + 1 + (IF c <= 127 THEN 0 ELSE j - run.loc)))]

RECURSIVE byterle_expand(_, _, _, _)
byterle_expand(b, runs, k, v) ==
    IF k > Len(runs) THEN v
    ELSE byterle_expand(b, runs, k + 1, Over(byterle_run(b, runs[k]), v))

Byte_RLE(b, maxvals) ==
    CHOOSE r \in
       {[bs   |-> flush_and_fill(b, st.lastpos),
         vals |-> byterle_expand(b, st.runs, 1, NoVals),
         num  |-> st.numvals] :
           st \in {byterle_scan(b, maxvals, scan_maxpos(b),
                      [lastpos |-> b.pos, numvals |-> 0, runs |-> <<>>])}} : TRUE

(* ---- Integer_RLEv2 ---- *)

\* maps the 5-bit width code to the width in bits
kRLEv2_W == <<1, 2, 3, 4, 5, 6, 7, 8, 9, 10, 11, 12, 13, 14, 15, 16,
              17, 18, 19, 20, 21, 22, 23, 24, 26, 28, 30, 32, 40, 48, 56, 64>>

RLEv2Width(code) == kRLEv2_W[code + 1]

\* the header of the run at pos0 as the scan reads it: the number of values n
\* and the number of bytes l that follow the fixed header bytes, which end at pos
rlev2_scan_header(b, W, pos0) ==
    LET byte0 == bytestream_readbyte(b, pos0)
        mode == byte0 \div 64
        byte1 == bytestream_readbyte(b, pos0 + 1)
        lw == RLEv2Width((byte0 \div 2) % 32)
        n == 1 + (byte0 % 2) * 256 + byte1
    IN  IF mode = 0
        THEN \* 00lllnnn: short repeat
             [n |-> 3 + (byte0 % 8), l |-> 1 + ((byte0 \div 8) % 8), pos |-> pos0 + 1]
        ELSE IF mode = 1
        THEN \* 01wwwwwn.nnnnnnnn: direct
             [n |-> n, l |-> (lw * n + 7) \div 8, pos |-> pos0 + 2]
        ELSE IF mode = 2
        THEN \* 10wwwwwn.nnnnnnnn.xxxxxxxx.yyyyyyyy: patched base
             LET byte2 == bytestream_readbyte(b, pos0 + 2)
                 byte3 == bytestream_readbyte(b, pos0 + 3)
                 bw == 1 + (byte2 \div 32)
                 pw == RLEv2Width(byte2 % 32)
                 pgw == 1 + (byte3 \div 32)
                 pll == byte3 % 32
             IN  [n |-> n,
                  l |-> ((lw * n + 7) \div 8) + bw + ((pll * (pgw + pw) + 7) \div 8),
                  pos |-> pos0 + 4]
        ELSE \* 11wwwwwn.nnnnnnnn.<base>.<delta>: delta
             LET len1 == varint_length(b, pos0 + 2, W)
                 deltapos == len1 + varint_length(b, pos0 + 2 + len1, W)
             IN  [n |-> n,
                  l |-> (IF lw > 1 THEN (lw * n + 7) \div 8 ELSE 0) + deltapos,
                  pos |-> pos0 + 2]

\* lane 0 finds the runs; st = [lastpos, numvals, runs_loc, v]: vals[numvals]
\* = lastpos is written before the run is accepted
RECURSIVE rlev2_scan(_, _, _, _, _)
rlev2_scan(b, W, maxvals, maxpos, st) ==
    IF ~(st.numvals < maxvals) THEN st
    ELSE
    LET h == rlev2_scan_header(b, W, st.lastpos)
        v1 == Put(st.v, st.numvals, st.lastpos)
        pos == h.pos + h.l
    IN  IF st.numvals + h.n > maxvals \/ pos > maxpos THEN [st EXCEPT !.v = v1]
        ELSE rlev2_scan(b, W, maxvals, maxpos,
               [lastpos |-> pos, numvals |-> st.numvals + h.n, v |-> v1,
                runs_loc |-> Append(st.runs_loc, st.numvals)])

\* |x| and -x of a w-bit word
BVAbs(x, w) == IF BVNegative(x, w) THEN BVNeg(x, w) ELSE x

\* big-endian bit field read by the run loop: bytestream_readbits for 32-bit
\* elements, bytestream_readbits64 for 64-bit elements
rlev2_readbits(b, bitpos, numbits, W) ==
    IF W = 32 THEN bytestream_readbits(b, bitpos, numbits)
    ELSE bytestream_readbits64(b, bitpos, numbits)

\* the value of j & i for a power of two i, and (j & ~i) | (i - 1)
BitSet(j, i) == (j \div i) % 2 = 1
\* a variant of ScanSource that takes the element i slots below
ScanSourceBelow(j, i) == j - i
ScanSource(j, i) == j - (j % i) - 1

\* the doubling prefix sum of the code over v[0..n-1]: in the round of i every
\* j with bit i set adds the element (j & ~i) | (i - 1)
RECURSIVE prefix_rounds(_, _, _, _)
prefix_rounds(v, n, i, w) ==
    IF ~(i < n) THEN v
    ELSE prefix_rounds(
            [j \in DOMAIN v |->
                IF j < n /\ BitSet(j, i) THEN BVAdd(v[j], v[ScanSource(j, i)], w)
                ELSE v[j]],
            n, 2 * i, w)

\* short repeat: n copies of the w-bit big-endian value
rlev2_short_repeat(b, T, pos0) ==
    LET byte0 == bytestream_readbyte(b, pos0)
        w == 8 + ((byte0 \div 8) % 8) * 8
        n == 3 + (byte0 % 8)
        baseval == bytestream_readbe(b, (pos0 + 1) * 8, w, T)
    IN  [i \in 0..(n - 1) |-> baseval]

\* a variant of rlev2_direct that takes field i from bit (i + 1) * w - 1 on
\* (one bit early)
rlev2_direct_early(b, T, pos0) ==
    LET byte0 == bytestream_readbyte(b, pos0)
        w == RLEv2Width((byte0 \div 2) % 32)
        n == 1 + (byte0 % 2) * 256 + bytestream_readbyte(b, pos0 + 1)
        pos == pos0 + 2
    IN  [i \in 0..(n - 1) |-> bytestream_readbe(b, pos * 8 + i * w - 1, w, T)]

\* direct: n big-endian fields of w bits
rlev2_direct(b, T, pos0) ==
    LET byte0 == bytestream_readbyte(b, pos0)
        w == RLEv2Width((byte0 \div 2) % 32)
        n == 1 + (byte0 % 2) * 256 + bytestream_readbyte(b, pos0 + 1)
        pos == pos0 + 2
    IN  [i \in 0..(n - 1) |-> bytestream_readbe(b, pos * 8 + i * w, w, T)]

\* base value of a patched-base run: bw bytes, sign-magnitude.  The mask is
\* (1 << (bw*8-1)) - 1 for 32-bit elements and (2 << (bw*8-1)) - 1 for 64-bit
rlev2_patched_base(b, W, pos, bw) ==
    LET baseval == rlev2_readbits(b, pos * 8, bw * 8, W)
        mask == IF W = 32 THEN 0..(bw * 8 - 2)
                ELSE BVTrunc(0..(bw * 8 - 1), 64)
    IN  IF BVGt(baseval, mask) THEN BVNeg(BVAnd(baseval, mask), W) ELSE baseval

\* the patch list as the 32 lanes of the warp compute it: lane tr < pll reads
\* pgw + pw bits at bit pos * 8 + n * w and adds 1; patch is its low pw bits and
\* patch_pos the rest, prefix-summed over the lanes
rlev2_patch_lanes(b, pos, n, w, pw, pgw, pll) ==
    LET raw == [tr \in 0..31 |->
                  IF tr < pll
                  THEN BVAdd(bytestream_readbits(b, pos * 8 + n * w, pgw + pw), {0}, 32)
                  ELSE {}]
        pp == prefix_rounds([tr \in 0..31 |-> BVShr(raw[tr], pw)], pll, 1, 32)
    IN  [tr \in 0..31 |-> [patch |-> BVTrunc(raw[tr], pw), patch_pos |-> pp[tr]]]

\* patched base: base + offset in every slot, then vals[base + patch_pos] +=
\* patch << w for every lane tr < pll with patch_pos < n (of several lanes
\* that hit one slot, the highest stores last)
rlev2_patched(b, T, pos0) ==
    LET W == TypeBits(T)
        byte0 == bytestream_readbyte(b, pos0)
        w == RLEv2Width((byte0 \div 2) % 32)
        n == 1 + (byte0 % 2) * 256 + bytestream_readbyte(b, pos0 + 1)
        byte2 == bytestream_readbyte(b, pos0 + 2)
        byte3 == bytestream_readbyte(b, pos0 + 3)
        bw == 1 + (byte2 \div 32)
        pw == RLEv2Width(byte2 % 32)
        pgw == 1 + (byte3 \div 32)
        pll == byte3 % 32
        baseval == rlev2_patched_base(b, W, pos0 + 4, bw)
        pos == pos0 + 4 + bw
        plain == [i \in 0..(n - 1) |->
                    BVAdd(baseval,
                          BVTrunc(rlev2_readbits(b, pos * 8 + i * w, w, W), 32), W)]
        lanes == rlev2_patch_lanes(b, pos, n, w, pw, pgw, pll)
        Hits(i) == {tr \in 0..(pll - 1) : lanes[tr].patch_pos = BVFromNat(i)}
        Last(S) == CHOOSE tr \in S : \A x \in S : x <= tr
    IN  [i \in 0..(n - 1) |->
            IF Hits(i) = {} THEN plain[i]
            ELSE BVAdd(plain[i], BVShl(lanes[Last(Hits(i))].patch, w, 32), W)]

\* delta: base and delta are read with the decode_varint template (the base
\* by an explicit decode_varint<T>, the delta into a volatile field that the
\* signed overloads cannot bind), so neither is zig-zag decoded
rlev2_delta_values(b, W, pos0, bv, dv) ==
    LET byte0 == bytestream_readbyte(b, pos0)
        w == RLEv2Width((byte0 \div 2) % 32)
        n == 1 + (byte0 % 2) * 256 + bytestream_readbyte(b, pos0 + 1)
        baseval == BVTrunc(bv.result, W)
        delta == BVTrunc(dv.result, W)
        pos == dv.pos
        ofs(i) == IF i >= 2
                  THEN (IF w > 1 THEN rlev2_readbits(b, pos * 8 + (i - 2) * w, w, W)
                        ELSE {})
                  ELSE IF i = 1 THEN BVAbs(delta, W) ELSE {}
        steps == [i \in 0..(n - 1) |->
                    IF BVNegative(delta, W) THEN BVNeg(ofs(i), W) ELSE ofs(i)]
        sums == prefix_rounds(steps, n, 1, W)
    IN  [i \in 0..(n - 1) |-> BVAdd(sums[i], baseval, W)]

\* bv and dv are the two varints after the header: the base and the delta
rlev2_delta(b, T, pos0) ==
    CHOOSE r \in UNION
       {{rlev2_delta_values(b, TypeBits(T), pos0, bv, dv) :
            dv \in {decode_varint_T(b, bv.pos, TypeBits(T))}} :
                bv \in {decode_varint_T(b, pos0 + 2, TypeBits(T))}} : TRUE

\* the values of the run that starts at pos0
rlev2_run(b, T, pos0) ==
    LET mode == bytestream_readbyte(b, pos0) \div 64
    IN  IF mode = 0 THEN rlev2_short_repeat(b, T, pos0)
        ELSE IF mode = 1 THEN rlev2_direct(b, T, pos0)
        ELSE IF mode = 2 THEN rlev2_patched(b, T, pos0)
        ELSE rlev2_delta(b, T, pos0)

\* "Process the runs, 1 warp per run": run k starts at vals[runs_loc[k]]
RECURSIVE rlev2_expand(_, _, _, _, _)
rlev2_expand(b, T, st, k, v) ==
    IF k > Len(st.runs_loc) THEN v
    ELSE rlev2_expand(b, T, st, k + 1,
            Over(CHOOSE e \in
                    {[j \in {st.runs_loc[k] + i : i \in DOMAIN r} |-> r[j - st.runs_loc[k]]] :
                        r \in {rlev2_run(b, T, st.v[st.runs_loc[k]])}} : TRUE,
                 v))

Integer_RLEv2(b, maxvals, T) ==
    CHOOSE r \in
       {[bs   |-> flush_and_fill(b, st.lastpos),
         vals |-> rlev2_expand(b, T, st, 1,
                     [j \in DOMAIN st.v |-> BVFromNat(st.v[j])]),
         num  |-> st.numvals] :
           st \in {rlev2_scan(b, TypeBits(T), maxvals, scan_maxpos(b),
                      [lastpos |-> b.pos, numvals |-> 0, runs_loc |-> <<>>,
                       v |-> NoVals])}} : TRUE

----------------------------------------------------------------------------
(* Reference encodings (ORC writer side), used to state round trips *)

\* (x << 1) ^ (x >> (w-1)): the zig-zag encoding of a signed w-bit word
ZigZagEncode(x, w) ==
    IF BVNegative(x, w) THEN BVNot(BVShl(x, 1, w), w) ELSE BVShl(x, 1, w)

\* the canonical base-128 encoding of an unsigned word, low 7 bits first
RECURSIVE EncVarint(_)
EncVarint(u) ==
    LET low7 == BVToNat(BVTrunc(u, 7))
        rest == BVShr(u, 7)
    IN  IF rest = {} THEN <<low7>> ELSE <<low7 + 128>> \o EncVarint(rest)

\* the bytes a writer emits for a value of element type T
EncVarintT(x, T) ==
    EncVarint(IF TypeSigned(T) THEN ZigZagEncode(x, TypeBits(T)) ELSE x)

\* bytes of a big-endian bit string, zero padded to a whole byte
PackBits(bits) ==
    LET bit(k) == IF k <= Len(bits) THEN bits[k] ELSE 0
    IN  [j \in 1..((Len(bits) + 7) \div 8) |->
            128 * bit(8*j - 7) + 64 * bit(8*j - 6) + 32 * bit(8*j - 5)
            + 16 * bit(8*j - 4) + 8 * bit(8*j - 3) + 4 * bit(8*j - 2)
            + 2 * bit(8*j - 1) + bit(8*j)]

\* the words of f packed as big-endian fields of w bits each
PackFields(f, w) ==
    PackBits([k \in 1..(Len(f) * w) |->
                 IF (w - 1 - ((k - 1) % w)) \in f[((k - 1) \div w) + 1] THEN 1 ELSE 0])

RECURSIVE Flatten(_)
Flatten(ss) ==
    IF ss = <<>> THEN <<>>
    ELSE IF Len(ss) = 1 THEN ss[1]
    ELSE LET h == Len(ss) \div 2
         IN  Flatten(SubSeq(ss, 1, h)) \o Flatten(SubSeq(ss, h + 1, Len(ss)))

\* the word a writer stores for value x of element type T
Stored(x, T) == IF TypeSigned(T) THEN ZigZagEncode(x, TypeBits(T)) ELSE x

\* A run as the writer produces it: its kind, its bytes, and the values it
\* stands for (a sequence of words of the element type).

\* RLE v1 run: control n-3, the signed 8-bit delta, the base varint
V1Run(T, n, delta, base) ==
    [kind |-> "v1run", n |-> n,
     bytes |-> <<n - 3, IF delta < 0 THEN delta + 256 ELSE delta>> \o EncVarintT(base, T),
     values |-> [i \in 1..n |->
                   BVAdd(base, BVFromInt(delta * (i - 1), TypeBits(T)), TypeBits(T))]]

\* RLE v1 literal block: control 256-n, then n varints
V1Lit(T, xs) ==
    [kind |-> "v1lit", n |-> Len(xs),
     bytes |-> <<256 - Len(xs)>> \o Flatten([i \in 1..Len(xs) |-> EncVarintT(xs[i], T)]),
     values |-> xs]

\* byte RLE run / literal block
ByteRun(n, byte) ==
    [kind |-> "brun", n |-> n, bytes |-> <<n - 3, byte>>,
     values |-> [i \in 1..n |-> BVFromNat(byte)]]
ByteLit(bytes) ==
    [kind |-> "blit", n |-> Len(bytes), bytes |-> <<256 - Len(bytes)>> \o bytes,
     values |-> [i \in 1..Len(bytes) |-> BVFromNat(bytes[i])]]

\* RLE v2 short repeat: 00lllnnn, then the value in wbytes big-endian bytes
V2ShortRepeat(T, wbytes, n, x) ==
    [kind |-> "short_repeat", n |-> n,
     bytes |-> <<(wbytes - 1) * 8 + (n - 3)>> \o PackFields(<<Stored(x, T)>>, 8 * wbytes),
     values |-> [i \in 1..n |-> x]]

\* the two header bytes of the other modes: mmwwwwwn.nnnnnnnn
V2Header(mode, code, n) == <<64 * mode + 2 * code + ((n - 1) \div 256), (n - 1) % 256>>

\* RLE v2 direct: the values as fields of the width the code names
V2Direct(T, code, xs) ==
    [kind |-> "direct", n |-> Len(xs),
     bytes |-> V2Header(1, code, Len(xs))
               \o PackFields([i \in 1..Len(xs) |-> Stored(xs[i], T)], RLEv2Width(code)),
     values |-> xs]

\* the values of a delta run: base, base + delta, then each step added with
\* the sign of delta (mags = <<>>: every step is the fixed delta)
RECURSIVE DeltaValues(_, _, _, _, _, _)
DeltaValues(prev, delta, mags, k, n, W) ==
    IF k > n THEN <<>>
    ELSE LET step == IF mags = <<>> THEN delta
                     ELSE IF BVNegative(delta, W) THEN BVNeg(mags[k - 2], W)
                     ELSE mags[k - 2]
             x == BVAdd(prev, step, W)
         IN  <<x>> \o DeltaValues(x, delta, mags, k + 1, n, W)

\* RLE v2 delta: base varint, signed delta varint, then the n-2 step
\* magnitudes as fields (none for width code 0, the fixed delta)
V2Delta(T, code, n, base, delta, mags) ==
    LET W == TypeBits(T)
    IN  [kind |-> "delta", n |-> n, fixed |-> (mags = <<>>),
         bytes |-> V2Header(3, code, n) \o EncVarintT(base, T)
                   \o EncVarint(ZigZagEncode(delta, W))
                   \o (IF mags = <<>> THEN <<>> ELSE PackFields(mags, RLEv2Width(code))),
         values |-> IF n = 1 THEN <<base>>
                    ELSE <<base, BVAdd(base, delta, W)>>
                         \o DeltaValues(BVAdd(base, delta, W), delta, mags, 3, n, W)]

\* absolute positions of the patches: the gaps summed
RECURSIVE PatchPositions(_, _, _)
PatchPositions(patches, k, at) ==
    IF k > Len(patches) THEN <<>>
    ELSE <<at + patches[k].gap>> \o PatchPositions(patches, k + 1, at + patches[k].gap)

\* RLE v2 patched base: the base in bw bytes (sign-magnitude), the offsets as
\* fields of the width the code names, then the patch list: (gap, patch) pairs
\* of pgw + pw bits.  base is an integer, offs and patch are words.
V2Patched(T, code, bw, base, offs, pwcode, pgw, patches) ==
    LET W == TypeBits(T)
        w == RLEv2Width(code)
        pw == RLEv2Width(pwcode)
        n == Len(offs)
        at == PatchPositions(patches, 1, 0)
        basefield == BVFromNat(IF base < 0 THEN -base ELSE base)
                     \cup (IF base < 0 THEN {8 * bw - 1} ELSE {})
        patched(i) == UNION {BVShl(patches[k].patch, w, W) :
                               k \in {j \in 1..Len(patches) : at[j] = i - 1}}
    IN  [kind |-> "patched", n |-> n,
         bytes |-> V2Header(2, code, n) \o <<32 * (bw - 1) + pwcode, 32 * (pgw - 1) + Len(patches)>>
                   \o PackFields(<<basefield>>, 8 * bw)
                   \o PackFields(offs, w)
                   \o PackFields([k \in 1..Len(patches) |->
                         BVShl(BVFromNat(patches[k].gap), pw, 64) \cup patches[k].patch],
                         pgw + pw),
         values |-> [i \in 1..n |->
                       BVAdd(BVFromInt(base, W), offs[i] \cup patched(i), W)]]

\* the bytes and the values of a sequence of runs
StreamBytes(runs) == Flatten([i \in 1..Len(runs) |-> runs[i].bytes])
StreamValues(runs) == Flatten([i \in 1..Len(runs) |-> runs[i].values])

----------------------------------------------------------------------------
(* State shared by the specifications *)

NoStream == [bytes |-> <<>>, ofs |-> 0, pad |-> 0]
NoBs == bytestream_init(NoStream)
Nothing == <<>>

\* values of the bytes that surround a stream / of unwritten shared memory
PadBytes == {0, 255}
\* low address bits a stream may start at
StreamOffsets == {0, 5}

----------------------------------------------------------------------------
(* Specification SpecVarint: one varint is written by the reference encoder *)
(* and read back by decode_varint                                           *)

\* words of every encoded length: 0, each power of two, each 2^(k+1)-1 and
\* each alternating pattern, up to the width of the type
VarintValues(W) ==
    {{}} \cup {{k} : k \in 0..(W-1)} \cup {0..k : k \in 0..(W-1)}
         \cup {{i \in 0..k : i % 2 = 0} : k \in 0..(W-1)}

InitVarint ==
    /\ phase = "varint"
    /\ \E T \in ElementTypes, ofs \in StreamOffsets, pad \in PadBytes :
         \E x \in VarintValues(TypeBits(T)) :
            /\ inp = [T |-> T, value |-> x]
            /\ bs = bytestream_initbuf(bytestream_init(
                       [bytes |-> EncVarintT(x, T), ofs |-> ofs, pad |-> pad]))
    /\ bs2 = NoBs
    /\ vals = NoVals
    /\ out = Nothing
    /\ chunk = Nothing
    /\ top = Nothing
    /\ gmem = Nothing

\* a lane decodes the varint at the stream position
VarintDecode ==
    /\ phase = "varint"
    /\ phase' = "varint_done"
    /\ out' = decode_varint(bs, bs.pos, inp.T)
    /\ UNCHANGED <<inp, bs, bs2, vals, chunk, top, gmem>>

\* a lane asks for the length of the varint at the stream position, as the
\* run scanners do before they step over a literal
VarintLength ==
    /\ phase = "varint"
    /\ phase' = "varint_len"
    /\ out' = [len |-> varint_length(bs, bs.pos, TypeBits(inp.T))]
    /\ UNCHANGED <<inp, bs, bs2, vals, chunk, top, gmem>>

NextVarint == VarintDecode \/ VarintLength

SpecVarint == InitVarint /\ [][NextVarint]_vars

\* C3: decode_varint returns the value the canonical encoder was given, for
\* every unsigned 32-bit value (T = uint32), every unsigned 64-bit value
\* (T = uint64, encodings of exactly 5 bytes included), and the zig-zag
\* decoding of it for the signed overloads.
C3_VarintRoundTrip ==
    phase = "varint_done" => out.result = inp.value

\* the same round trip outside the one failing shape: a 64-bit element whose
\* encoding is exactly 5 bytes long
VarintRoundTripBut5Byte64 ==
    (/\ phase = "varint_done"
     /\ ~(TypeBits(inp.T) = 64 /\ Len(bs.strm.bytes) = 5))
        => (out.result = inp.value /\ out.pos = bs.pos + Len(bs.strm.bytes))

----------------------------------------------------------------------------
(* Specifications SpecRLEv1, SpecRLEv2, SpecByteRLE: a stream of runs is    *)
(* written by the reference encoders and read back by repeated invocations  *)
(* of one decoder                                                           *)

\* most runs in a stream of several runs
MaxRuns == 2
\* largest maxvals a caller passes, besides "all that remain"
MaxVals == 6

\* element types the decoders are instantiated with
DecoderTypes == {"u32", "i32", "i64"}

\* -2^k as a W-bit word
NegPow2(k, W) == k..(W - 1)

\* RLE v1 runs and literal blocks that follow each other in a stream
V1Core(T) ==
    LET W == TypeBits(T)
        x(n) == BVFromInt(n, W)
    IN  { V1Run(T, 3, 0, x(5)),
          V1Run(T, 5, -2, x(60)),
          V1Run(T, 4, -128, x(1000)),
          V1Lit(T, <<x(7)>>),
          V1Lit(T, <<x(1), x(63), x(2)>>),
          V1Lit(T, <<x(300), x(2)>>),
          V1Lit(T, IF TypeSigned(T) THEN <<x(-1), x(-64)>> ELSE <<x(127), x(0)>>) }

\* the longest run and the longest literal block
V1Long(T) ==
    LET W == TypeBits(T)
    IN  { V1Run(T, 130, 127, BVFromInt(1, W)),
          V1Lit(T, [i \in 1..128 |-> BVFromInt(i % 64, W)]) }

ByteCore ==
    { ByteRun(3, 0), ByteRun(5, 128), ByteLit(<<7>>), ByteLit(<<200, 0, 129>>),
      ByteRun(4, 127), ByteLit(<<255, 1>>) }

ByteLong ==
    { ByteRun(130, 255), ByteLit([i \in 1..128 |-> (3 * i) % 256]) }

\* a value that needs every bit of a field of w bits: 2^(w-1) + odd for an
\* unsigned element, -2^(w-1) (zig-zag 2^w - 1) for a signed one
FieldValue(T, w, odd) ==
    IF TypeSigned(T) THEN (IF odd = 1 THEN NegPow2(w - 1, TypeBits(T)) ELSE {})
    ELSE {w - 1} \cup (IF odd = 1 THEN {0} ELSE {})

\* short repeats of every byte width the element holds and every count
V2ShortRepeats(T) ==
    { V2ShortRepeat(T, wb, 3 + ((3 * wb) % 8), FieldValue(T, 8 * wb, 1)) :
        wb \in 1..(TypeBits(T) \div 8) }
    \cup { V2ShortRepeat(T, 1, n, BVFromInt(9, TypeBits(T))) : n \in {3, 10} }

\* direct runs of every width the element holds
V2Directs(T) ==
    { V2Direct(T, code, [i \in 1..(1 + (code % 3)) |-> FieldValue(T, RLEv2Width(code), i % 2)]) :
        code \in {c \in 0..31 : RLEv2Width(c) <= TypeBits(T)} }
    \cup { V2Direct(T, 0, [i \in 1..512 |-> FieldValue(T, 1, (i \div 3) % 2)]),
           V2Direct(T, 7, [i \in 1..33 |-> BVFromInt(i, TypeBits(T))]) }

V2Deltas(T) ==
    LET W == TypeBits(T)
        x(n) == BVFromInt(n, W)
    IN  { V2Delta(T, 0, 5, x(7), x(0), <<>>),
          V2Delta(T, 0, 5, x(10), x(10), <<>>),
          V2Delta(T, 0, 4, x(100), x(-1), <<>>),
          V2Delta(T, 1, 4, x(3), x(1), <<x(2), x(3)>>),
          V2Delta(T, 3, 5, x(50), x(-2), <<x(5), x(1), x(9)>>) }

V2Patcheds(T) ==
    LET x(n) == BVFromNat(n)
    IN  { V2Patched(T, 7, 1, 20, <<x(1), x(2), x(3), x(4), x(5), x(255)>>, 3, 3,
                    <<[gap |-> 1, patch |-> x(5)], [gap |-> 3, patch |-> x(9)]>>),
          V2Patched(T, 3, 1, -5, <<x(15), x(6), x(7)>>, 0, 1,
                    <<[gap |-> 0, patch |-> x(1)]>>),
          V2Patched(T, 7, 2, 300, <<x(0), x(9), x(8), x(7)>>, 7, 2,
                    <<[gap |-> 2, patch |-> x(129)]>>) }

\* RLE v2 runs that follow each other in a stream
V2Core(T) ==
    LET W == TypeBits(T)
        x(n) == BVFromInt(n, W)
    IN  { V2ShortRepeat(T, 1, 3, x(9)),
          V2Direct(T, 7, <<x(10), x(20)>>),
          V2Direct(T, 2, <<x(1), x(2), x(3)>>),
          V2Delta(T, 0, 5, x(10), x(10), <<>>),
          V2Patched(T, 3, 1, 5, <<x(15), x(6), x(7)>>, 0, 1,
                    <<[gap |-> 1, patch |-> x(1)]>>) }

\* every sequence of 2..MaxRuns runs of Core, and every single run
RunSeqs(Core, Single) ==
    { <<r>> : r \in Core \cup Single }
    \cup UNION { [1..k -> Core] : k \in 2..MaxRuns }

Streams(dec, T) ==
    IF dec = "rlev1" THEN RunSeqs(V1Core(T), V1Long(T))
    ELSE IF dec = "rlev2"
    THEN RunSeqs(V2Core(T), V2ShortRepeats(T) \cup V2Directs(T)
                            \cup V2Deltas(T) \cup V2Patcheds(T))
    ELSE RunSeqs(ByteCore, ByteLong)

\* where the stream lies in memory and what surrounds it
Placements == {[ofs |-> 0, pad |-> 0], [ofs |-> 5, pad |-> 255]}

InitRLE(dec) ==
    /\ phase = "rle"
    /\ \E T \in (IF dec = "byte" THEN {"u8"} ELSE DecoderTypes), pl \in Placements :
         \E runs \in Streams(dec, T) :
            /\ inp = [dec |-> dec, T |-> T, runs |-> runs]
            /\ bs = bytestream_initbuf(bytestream_init(
                       [bytes |-> StreamBytes(runs), ofs |-> pl.ofs, pad |-> pl.pad]))
    /\ bs2 = NoBs
    /\ vals = NoVals
    /\ out = [values |-> <<>>, maxvals |-> 0, num |-> 0, from |-> 0]
    /\ chunk = Nothing
    /\ top = Nothing
    /\ gmem = Nothing

\* values the caller still wants
Remaining == Len(StreamValues(inp.runs)) - Len(out.values)

\* one invocation d of a decoder with maxvals = mv: the stream is flushed and
\* refilled, vals[] is overwritten, the caller takes vals[0..num-1]
Invoke(d, mv) ==
    /\ bs' = d.bs
    /\ vals' = d.vals
    /\ out' = [values |-> out.values \o [i \in 1..d.num |-> d.vals[i - 1]],
               maxvals |-> mv, num |-> d.num, from |-> bs.pos]
    /\ UNCHANGED <<phase, inp, bs2, chunk, top, gmem>>

\* the maxvals a caller may pass: one value, a few, or all that remain (at
\* most one per lane of the block)
MaxvalsChoices ==
    {m \in {1, MaxVals \div 2, MaxVals} : m <= Remaining} \cup {Min(Remaining, NTHREADS)}

DecodeRLEv1 ==
    /\ phase = "rle" /\ inp.dec = "rlev1" /\ Remaining > 0
    /\ \E mv \in MaxvalsChoices :
          Invoke(Integer_RLEv1(bs, mv, inp.T), mv)

DecodeRLEv2 ==
    /\ phase = "rle" /\ inp.dec = "rlev2" /\ Remaining > 0
    /\ \E mv \in MaxvalsChoices :
          Invoke(Integer_RLEv2(bs, mv, inp.T), mv)

DecodeByteRLE ==
    /\ phase = "rle" /\ inp.dec = "byte" /\ Remaining > 0
    /\ \E mv \in MaxvalsChoices :
          Invoke(Byte_RLE(bs, mv), mv)

SpecRLEv1 == InitRLE("rlev1") /\ [][DecodeRLEv1]_vars
SpecRLEv2 == InitRLE("rlev2") /\ [][DecodeRLEv2]_vars
SpecByteRLE == InitRLE("byte") /\ [][DecodeByteRLE]_vars

\* the values the writer encoded, and whether s is a leading part of them
Expected == StreamValues(inp.runs)
IsPrefix(s, t) == Len(s) <= Len(t) /\ \A i \in 1..Len(s) : s[i] = t[i]
Kinds == {inp.runs[i].kind : i \in 1..Len(inp.runs)}

\* stream position after the first k runs, and the number of values in them
RECURSIVE BytesOfRuns(_, _)
BytesOfRuns(runs, k) == IF k = 0 THEN 0 ELSE Len(runs[k].bytes) + BytesOfRuns(runs, k - 1)
RECURSIVE ValuesOfRuns(_, _)
ValuesOfRuns(runs, k) == IF k = 0 THEN 0 ELSE runs[k].n + ValuesOfRuns(runs, k - 1)

\* the invocations so far produced whole runs, in order, with the writer's
\* values, and the stream position is at the start of the first run not produced
WholeRunsDecoded ==
    \E k \in 0..Len(inp.runs) :
        /\ Len(out.values) = ValuesOfRuns(inp.runs, k)
        /\ bs.pos = bs.strm.ofs + BytesOfRuns(inp.runs, k)
        /\ IsPrefix(out.values, Expected)

\* the last invocation was asked for every value that remained
AskedForRest == out.maxvals = Len(Expected) - (Len(out.values) - out.num)

\* what the invocations returned so far are the writer's values, in order, and
\* an invocation asked for all that remained returned all of it
RoundTrip ==
    /\ IsPrefix(out.values, Expected)
    /\ AskedForRest => out.values = Expected

\* C4: Integer_RLEv1 over a stream of runs (3..130 values, signed 8-bit
\* delta, base varint) and literal blocks (1..128 varints) returns the values
\* the writer encoded, for 32-bit and 64-bit elements.
C4_RLEv1RoundTrip ==
    (phase = "rle" /\ inp.dec = "rlev1") => RoundTrip

\* the same round trip when every varint of the stream is one byte long
RLEv1RoundTripOneByteVarints ==
    (/\ phase = "rle" /\ inp.dec = "rlev1"
     /\ \A i \in 1..Len(inp.runs) :
           Len(inp.runs[i].bytes) = (IF inp.runs[i].kind = "v1run" THEN 3
                                     ELSE 1 + inp.runs[i].n))
        => (RoundTrip /\ WholeRunsDecoded)

\* C5: Integer_RLEv2 over a stream of short-repeat runs (value of 8..64 bits
\* in steps of 8, 3..10 copies) and direct runs (every width of the table,
\* 1..512 values) returns the values the writer encoded.
C5_ShortRepeatDirectRoundTrip ==
    (phase = "rle" /\ inp.dec = "rlev2" /\ Kinds \subseteq {"short_repeat", "direct"})
        => RoundTrip

\* a stream of a short repeat and a direct run has been read back whole
C5_Witness ==
    /\ phase = "rle" /\ inp.dec = "rlev2"
    /\ Kinds = {"short_repeat", "direct"}
    /\ out.num > 0
    /\ out.values = Expected

\* C6: Integer_RLEv2 over delta runs (zero, positive and negative delta,
\* zig-zag base for signed elements, fixed-delta runs without packed deltas)
\* returns the values the writer encoded.
C6_DeltaRoundTrip ==
    (phase = "rle" /\ inp.dec = "rlev2" /\ Kinds \subseteq {"delta"}) => RoundTrip

\* C7: Integer_RLEv2 over patched-base runs returns base + (offset | patch <<
\* width) at every patched position (each patch entry taken from its own
\* place in the patch list, the gaps summed, the patch bits as stored) and
\* base + offset elsewhere.
C7_PatchedBaseRoundTrip ==
    (phase = "rle" /\ inp.dec = "rlev2" /\ Kinds \subseteq {"patched"}) => RoundTrip

\* C8: Byte_RLE expands a control byte c <= 0x7F to c + 3 copies of the next
\* byte and a control byte c > 0x7F to the 256 - c literal bytes that follow.
C8_ByteRLERoundTrip ==
    (phase = "rle" /\ inp.dec = "byte") => RoundTrip

\* a stream of a run and a literal block has been read back whole
C8_Witness ==
    /\ phase = "rle" /\ inp.dec = "byte"
    /\ Kinds = {"brun", "blit"}
    /\ out.num > 0
    /\ out.values = Expected

\* C9: every invocation of a run decoder returns at most maxvals values,
\* moves the stream position exactly past the runs it produced, to the start
\* of the first run it did not produce, and the outputs of successive
\* invocations joined together are the decoded stream.
C9_InvocationContract ==
    phase = "rle" => (out.num <= out.maxvals /\ WholeRunsDecoded)

\* the same contract for the streams without delta and patched-base runs
InvocationContractShortRepeatDirect ==
    (phase = "rle" /\ Kinds \subseteq {"short_repeat", "direct", "brun", "blit"})
        => (out.num <= out.maxvals /\ WholeRunsDecoded)

----------------------------------------------------------------------------
(* Specification SpecFill: a byte-RLE stream of literal blocks, shorter or  *)
(* longer than the buffer, is consumed by repeated Byte_RLE invocations     *)

\* numbers of 128-byte literal blocks in the stream: 8 blocks stay inside the
\* buffer, 70 blocks (9030 bytes) do not
FillBlocks == {8, 70}
\* maxvals of the invocations: one block or eight
FillMaxvals == {128, 1024}

\* the k-th literal block: 128 bytes that differ from those 8192 bytes on
LiteralBlock(k) == <<128>> \o [i \in 1..128 |-> (7 * (129 * k + i)) % 251]

InitFill ==
    /\ phase = "fill"
    /\ \E nb \in FillBlocks, pl \in Placements :
          /\ inp = [blocks |-> nb]
          /\ bs = bytestream_initbuf(bytestream_init(
                     [bytes |-> Flatten([k \in 1..nb |-> LiteralBlock(k)]),
                      ofs |-> pl.ofs, pad |-> pl.pad]))
    /\ bs2 = NoBs
    /\ vals = NoVals
    /\ out = [maxvals |-> 0, num |-> 0, from |-> 0]
    /\ chunk = Nothing
    /\ top = Nothing
    /\ gmem = Nothing

\* one Byte_RLE invocation that produces something: scan, flush, expand, fill
FillDecode ==
    /\ phase = "fill"
    /\ bs.pos < bs.len
    /\ \E mv \in FillMaxvals :
          LET d == Byte_RLE(bs, mv)
          IN  /\ d.num > 0
              /\ bs' = d.bs
              /\ vals' = d.vals
              /\ out' = [maxvals |-> mv, num |-> d.num, from |-> bs.pos]
    /\ UNCHANGED <<phase, inp, bs2, chunk, top, gmem>>

SpecFill == InitFill /\ [][FillDecode]_vars

\* the buffer slot of position p holds the 8-byte word of the stream that
\* contains byte p
SlotHolds(b, p) ==
    LET slot == (p % BYTESTREAM_BFRSZ) \div 8
    IN  slot \in DOMAIN b.buf /\ b.buf[slot] = p \div 8

\* every position from pos up to min(len, pos + BYTESTREAM_BFRSZ - 8) is in
\* the buffer
BufferHoldsWindow(b) ==
    \A p \in b.pos..(Min(b.len, b.pos + BYTESTREAM_BFRSZ - 8) - 1) : SlotHolds(b, p)

\* C10: after every fill that follows a flush, each position p with
\* pos <= p < min(len, pos + BYTESTREAM_BFRSZ - 8) is held by buffer slot
\* p mod BYTESTREAM_BFRSZ, after any number of invocations and for streams
\* longer than the buffer.
C10_BufferHoldsWindow ==
    (phase = "fill" /\ out.num > 0) => BufferHoldsWindow(bs)

\* the same for the streams that are not longer than the buffer
BufferHoldsWindowShortStream ==
    (phase = "fill" /\ bs.len <= BYTESTREAM_BFRSZ) => BufferHoldsWindow(bs)

----------------------------------------------------------------------------
(* Column chunks: gpuDecodeNullsAndStringDictionaries (null decoding) and   *)
(* gpuDecodeOrcColumnData.  chunk is s->chunk, top is s->top, vals is       *)
(* s->vals, gmem holds the global chunk descriptor, the validity bitmap     *)
(* (word index -> 32-bit word) and the column data (row index -> value).    *)
(* inp.junk is the content of memory that nothing has written yet.          *)

\* encoding kinds: IS_RLEv1 is (kind) < DIRECT_V2
IS_RLEv1(encoding_kind) == encoding_kind \in {"DIRECT", "DICTIONARY"}

\* IS_DICTIONARY is (kind) & 1
IS_DICTIONARY(encoding_kind) == encoding_kind \in {"DICTIONARY", "DICTIONARY_V2"}

\* element of a function that stands for memory: what was stored, else junk
At(f, i) == IF i \in DOMAIN f THEN f[i] ELSE inp.junk

\* __popc
popc(x) == Cardinality(x)

\* s->vals.u32[k] seen through the bytes of s->vals.u8
vals_u32(v, k) ==
    UNION {{8 * j + i : i \in BVTrunc(At(v, 4 * k + j), 8)} : j \in 0..3}

\* rle8_read_u32: 32 bits of vals.u32[] from bit bitpos on
rle8_read_u32(v, bitpos) ==
    funnelshift_r(vals_u32(v, bitpos \div 32), vals_u32(v, (bitpos \div 32) + 1),
                  bitpos % 32)

\* the bits below n: (1 << n) - 1
LowMask(n) == 0..(n - 1)

(* ---- null decoding ---- *)

\* the kernel loads the descriptor and sets up the PRESENT stream, or fills
\* vals.u32[t] = ~0 when there is none (of these NTHREADS words the state
\* keeps the ones the rows of the chunk can reach, as bytes)
NullStart ==
    /\ phase = "null_start"
    /\ phase' = "null_loop"
    /\ chunk' = gmem.chunks
    /\ top' = [row |-> 0, null_count |-> 0]
    /\ IF Len(gmem.chunks.present.bytes) > 0
       THEN /\ bs' = bytestream_initbuf(bytestream_init(gmem.chunks.present))
            /\ vals' = NoVals
       ELSE /\ bs' = NoBs
            /\ vals' = [i \in 0..(4 * Min(NTHREADS, (gmem.chunks.num_rows \div 32) + 2) - 1)
                           |-> 0..7]
    /\ UNCHANGED <<inp, bs2, out, gmem>>

\* a variant of null_count_masked that counts every zero bit of the word
null_count_unmasked(bits, mask) == popc(BVNot(bits, 32))

\* a variant of null_count_masked that counts the zero bits of the masked word
null_count_of_masked_word(bits, mask) == popc(BVNot(BVAnd(bits, mask), 32))

\* null_count += __popc((~bits) & mask): the zero bits of a partial word that
\* belong to the rows stored
null_count_masked(bits, mask) == popc(BVAnd(BVNot(bits, 32), mask))

\* the validity words one batch stores, and the nulls it counts: v is vals
\* after the decode, row_in the absolute row of the batch, nrows its rows.
\* Gives the new bitmap and the number added to the lanes' null_count.
null_store(valid_map, v, row_in, nrows) ==
    LET first_row == inp.first_row
        max_num_rows == inp.max_num_rows
        dst_row == row_in - first_row
        dst_pos == Max(dst_row, 0)
        startbit0 == -Min(dst_row, 0)
        nbits0 == nrows - Min(startbit0, nrows)
        nbits1 == IF dst_pos + nbits0 > max_num_rows
                  THEN max_num_rows - Min(dst_pos, max_num_rows)
                  ELSE nbits0
        word0 == dst_pos \div 32
        bitpos == dst_pos % 32
        \* "Store bits up to the next 32-bit aligned boundary" (lane 0)
        n == Min(32 - bitpos, nbits1)
        hmask == BVShl(LowMask(n), bitpos, 32)
        hbits == BVAnd(BVShl(rle8_read_u32(v, startbit0), bitpos, 32), hmask)
        head == bitpos # 0
        nbits == IF head THEN nbits1 - n ELSE nbits1
        startbit == IF head THEN startbit0 + n ELSE startbit0
        base == IF head THEN word0 + 1 ELSE word0
        \* "Store bits aligned": lane t stores word base + t
        full == {t \in 0..(NTHREADS - 1) : t * 32 + 32 <= nbits}
        part == {t \in 0..(NTHREADS - 1) : ~(t * 32 + 32 <= nbits) /\ t * 32 < nbits}
        lbits(t) == rle8_read_u32(v, startbit + t * 32)
        pmask(t) == LowMask(nbits - t * 32)
        touched == (IF head THEN {word0} ELSE {})
                   \cup {base + t : t \in full \cup part}
        word(w) ==
            LET old == IF w = word0 /\ head
                       THEN BVOr(BVAnd(At(valid_map, w), BVNot(hmask, 32)), hbits)
                       ELSE At(valid_map, w)
                t == w - base
            IN  IF t \in full THEN lbits(t)
                ELSE IF t \in part
                THEN BVOr(BVAnd(old, BVNot(pmask(t), 32)), BVAnd(lbits(t), pmask(t)))
                ELSE old
        SumOver(S, f(_)) ==
            LET RECURSIVE sum(_)
                sum(R) == IF R = {} THEN 0
                          ELSE LET x == CHOOSE y \in R : TRUE IN f(x) + sum(R \ {x})
            IN  sum(S)
        nfull(t) == popc(BVNot(lbits(t), 32))
        npart(t) == null_count_masked(BVAnd(lbits(t), pmask(t)), pmask(t))
    IN  [valid_map |-> [w \in (DOMAIN valid_map) \cup touched |-> word(w)],
         nulls |-> (IF head THEN null_count_masked(hbits, hmask) ELSE 0)
                   + SumOver(full, nfull) + SumOver(part, npart)]

\* the valid rows below first_row as lanes 0..31 count them: every lane sums
\* the popcounts of the first skippedrows bits, then the 32 lanes are added up
null_skip_count(v, row_in, nrows) ==
    LET skippedrows == Min(inp.first_row - row_in, nrows)
        RECURSIVE lane(_)
        lane(i) ==
            IF ~(i < skippedrows) THEN 0
            ELSE popc(IF i + 32 > skippedrows
                      THEN BVAnd(vals_u32(v, i \div 32), LowMask(skippedrows - i))
                      ELSE vals_u32(v, i \div 32))
                 + lane(i + 32)
    IN  32 * lane(0)

\* a variant of null_batch_rows without the fallback for an empty batch
null_batch_rows_as_decoded(present, nrows0, nrows_max) ==
    IF present THEN nrows0 ELSE nrows_max

\* the rows one iteration of the null loop covers: the rows of the bytes
\* decoded, or the whole batch when nothing was decoded or there is no PRESENT
null_batch_rows(present, nrows0, nrows_max) ==
    IF present /\ nrows0 # 0 THEN nrows0 ELSE nrows_max

\* one iteration of the null loop: decode up to NTHREADS*32 PRESENT bits (or
\* take the all-ones words), store the bits of the rows inside the window,
\* count the valid rows below first_row, advance the row
NullBatch ==
    /\ phase = "null_loop"
    /\ top.row < chunk.num_rows
    /\ \E nrows_max \in {Min(chunk.num_rows - top.row, NTHREADS * 32)} :
       \E present \in {Len(chunk.present.bytes) > 0} :
       \E d \in {Byte_RLE(bs, (nrows_max + 7) \div 8)} :
       \E nrows \in {null_batch_rows(present, Min(nrows_max, d.num * 8), nrows_max)} :
       \* "Error: mark all remaining rows as null"
       \E zeroed \in {[i \in {4 * t + j : t \in {u \in 0..(NTHREADS - 1) : u * 32 < nrows},
                                          j \in 0..3} |-> {}]} :
       \E v \in {IF ~present THEN vals
                 ELSE IF Min(nrows_max, d.num * 8) # 0 THEN Over(d.vals, vals)
                 ELSE Over(zeroed, Over(d.vals, vals))} :
       \E row_in \in {chunk.start_row + top.row} :
       \E st \in {IF /\ row_in + nrows > inp.first_row
                     /\ row_in < inp.first_row + inp.max_num_rows
                     /\ chunk.valid_map_base # "NULL"
                  THEN null_store(gmem.valid_map, v, row_in, nrows)
                  ELSE [valid_map |-> gmem.valid_map, nulls |-> 0]} :
       \E skipped \in {IF row_in < inp.first_row
                       THEN null_skip_count(v, row_in, nrows) ELSE 0} :
           /\ bs' = IF present THEN d.bs ELSE bs
           /\ vals' = v
           /\ gmem' = [gmem EXCEPT !.valid_map = st.valid_map]
           /\ chunk' = [chunk EXCEPT !.skip_count = @ + skipped]
           /\ top' = [row |-> top.row + nrows, null_count |-> top.null_count + st.nulls]
    /\ UNCHANGED <<phase, inp, bs2, out>>

\* after the loop the lanes' null counts are added up and lane 0 stores the
\* sum in chunks[chunk_id].null_count
NullFinish ==
    /\ phase = "null_loop"
    /\ ~(top.row < chunk.num_rows)
    /\ phase' = "data_start"
    /\ gmem' = [gmem EXCEPT !.chunks.null_count = top.null_count]
    /\ UNCHANGED <<inp, bs, bs2, vals, out, chunk, top>>

(* ---- gpuDecodeOrcColumnData ---- *)

\* type kinds that are decoded from the DATA stream alone
DataKinds == {"INT", "SHORT", "DATE", "LONG", "BYTE", "BOOLEAN", "FLOAT", "DOUBLE"}

\* type kinds with a secondary unsigned 32-bit stream
StringKinds == {"STRING", "BINARY", "VARCHAR", "CHAR"}
SecondaryKinds == StringKinds \cup {"TIMESTAMP", "DECIMAL"}

\* lengths_to_positions: vals[0..numvals-1] of w-bit elements becomes its
\* running sum
lengths_to_positions(v, numvals, w) == prefix_rounds(v, numvals, 1, w)

\* the kernel loads the descriptor from global memory, sets the row range of
\* the chunk cut at the end of the window, clears dictionary_start (kept as a
\* 32-bit word from here on) unless the encoding is a dictionary, and sets up
\* the DATA stream and the secondary stream (CI_DATA2), whose buffer is
\* filled only for the direct encodings of the kinds that have one
DataStart ==
    /\ phase = "data_start"
    /\ phase' = IF gmem.chunks.start_row < Min(gmem.chunks.start_row + gmem.chunks.num_rows,
                                               inp.first_row + inp.max_num_rows)
                THEN "data_loop" ELSE "done"
    /\ chunk' = [gmem.chunks EXCEPT
                    !.dictionary_start =
                        IF IS_DICTIONARY(gmem.chunks.encoding_kind)
                        THEN BVFromNat(@) ELSE {}]
    /\ top' = [cur_row |-> gmem.chunks.start_row,
               end_row |-> Min(gmem.chunks.start_row + gmem.chunks.num_rows,
                               inp.first_row + inp.max_num_rows),
               buffered_count |-> 0, buffered_pos |-> 0,
               nrows |-> 0, max_vals |-> 0,
               row_ofs_plus1 |-> [i \in {} |-> 0]]
    /\ bs' = bytestream_initbuf(bytestream_init(gmem.chunks.data))
    /\ bs2' = IF /\ gmem.chunks.type_kind \in SecondaryKinds
                 /\ ~IS_DICTIONARY(gmem.chunks.encoding_kind)
              THEN bytestream_initbuf(bytestream_init(gmem.chunks.data2))
              ELSE bytestream_init(gmem.chunks.data2)
    /\ vals' = NoVals
    /\ UNCHANGED <<inp, out, gmem>>

\* bit r of the validity bitmap, read as ((uint8_t *)valid_map_base)[r >> 3]
valid_bit(valid_map, r) == IF (r % 32) \in At(valid_map, r \div 32) THEN 1 ELSE 0

\* row_ofs_plus1[i], a 16-bit element of shared memory
ofs_at(f, i) == IF i \in DOMAIN f THEN f[i] ELSE BVToNat(BVTrunc(inp.junk, 16))

\* a variant of window_rows without the cap of 0xfe00 rows for an iteration
window_rows_uncapped(end_row, cur_row, nrows) == Min(end_row - cur_row, NTHREADS)

\* the rows one pass of the row-window loop looks at:
\* min(end_row - cur_row, min(0xfe00 - nrows, NTHREADS))
window_rows(end_row, cur_row, nrows) ==
    Min(end_row - cur_row, Min(65024 - nrows, NTHREADS))

\* the validity bit lane t reads in a pass over nrows rows; a row below
\* first_row wraps to more than any rmax as uint32_t
window_valid(st, nrows, t) ==
    LET rmax == top.end_row - Min(inp.first_row, top.end_row)
        r == top.cur_row + st.nrows + t - inp.first_row
    IN  IF t < nrows /\ r >= 0 /\ r < rmax THEN valid_bit(gmem.valid_map, r) ELSE 0

\* "We have a present stream": the pass over nrows rows with validity bits v
\* and their running sums s. row_ofs_plus1[nz_pos - 1] = s->top.data.nrows + t
\* for the valid lanes t; the other slots keep the sums
window_present(st, nrows, v, s) ==
    LET nz_pos(t) == BVToNat(s[t])
        max_vals == st.max_vals + nz_pos(nrows - 1)
    IN  CHOOSE r \in
           { LET ofs == [i \in 0..(nrows - 1) |->
                           IF (i + 1) \in DOMAIN lane THEN st.nrows + lane[i + 1]
                           ELSE nz_pos(i)]
                 row_ofs == Over([i \in {st.max_vals + t : t \in 0..(nrows - 1)} |->
                                     ofs[i - st.max_vals]], st.row_ofs_plus1)
             IN  IF max_vals > NTHREADS
                 THEN [nrows |-> ofs_at(row_ofs, NTHREADS - 1), max_vals |-> NTHREADS,
                       row_ofs_plus1 |-> row_ofs]
                 ELSE [nrows |-> st.nrows + nrows, max_vals |-> max_vals,
                       row_ofs_plus1 |-> row_ofs] :
               lane \in {[k \in {nz_pos(t) : t \in {u \in 0..(nrows - 1) : v[u] = 1}} |->
                            CHOOSE t \in 0..(nrows - 1) : v[t] = 1 /\ nz_pos(t) = k]} } : TRUE

\* one pass of the row-window loop over st = [nrows, max_vals, row_ofs_plus1]
window_pass(st) ==
    LET nrows == window_rows(top.end_row, top.cur_row, st.nrows)
    IN  IF Len(chunk.present.bytes) > 0
        THEN CHOOSE r \in
                { CHOOSE q \in
                     { window_present(st, nrows, v, s) :
                          s \in {lengths_to_positions(
                                    [t \in 0..(nrows - 1) |-> BVFromNat(v[t])], nrows, 16)} } :
                     TRUE :
                  v \in {[t \in 0..(nrows - 1) |-> window_valid(st, nrows, t)]} } : TRUE
        ELSE \* "All values are valid"
             LET n == Min(nrows, NTHREADS - st.max_vals)
             IN  [nrows |-> st.nrows + n, max_vals |-> st.max_vals + n,
                  row_ofs_plus1 |->
                     Over([i \in {st.max_vals + t : t \in 0..(n - 1)} |->
                              st.nrows + (i - st.max_vals) + 1], st.row_ofs_plus1)]

\* "1. Use the valid bits to compute non-null row positions": the inner loop
\* over st = [nrows, max_vals, row_ofs_plus1]
RECURSIVE row_window(_)
row_window(st) ==
    IF ~(/\ st.max_vals < NTHREADS
         /\ top.cur_row + st.nrows < top.end_row
         /\ st.nrows < 65024)
    THEN st
    ELSE CHOOSE r \in {row_window(n) : n \in {window_pass(st)}} : TRUE

\* width in bits of the vals[] element a type kind is decoded to
ElemBits(kind) ==
    IF kind \in {"LONG", "DOUBLE"} THEN 64
    ELSE IF kind \in {"BYTE", "BOOLEAN"} THEN 8 ELSE 32

\* "Decode the primary data stream" for a kind of DataKinds: [bs, vals, num],
\* vals being the elements written and num the new numvals. INT, DATE and
\* SHORT decode to vals.i32, LONG to vals.i64, BYTE and BOOLEAN to vals.u8
\* (BOOLEAN asks for (numvals + 7) >> 3 bytes and counts num << 3 values).
data_decode(kind, encoding_kind, b, numvals, max_vals) ==
    IF kind \in {"INT", "DATE", "SHORT", "LONG"}
    THEN IF IS_RLEv1(encoding_kind)
         THEN Integer_RLEv1(b, numvals, IF kind = "LONG" THEN "i64" ELSE "i32")
         ELSE Integer_RLEv2(b, numvals, IF kind = "LONG" THEN "i64" ELSE "i32")
    ELSE IF kind \in {"BYTE", "BOOLEAN"}
    THEN CHOOSE r \in
            {[bs |-> d.bs, vals |-> d.vals,
              num |-> IF kind = "BOOLEAN" THEN Min(d.num * 8, max_vals) ELSE d.num] :
                d \in {Byte_RLE(b, IF kind = "BOOLEAN" THEN (numvals + 7) \div 8
                                   ELSE numvals)}} : TRUE
    ELSE \* FLOAT, DOUBLE: raw words of 4 or 8 bytes
         LET sz == ElemBits(kind) \div 8
             n == Min(numvals, (BYTESTREAM_BFRSZ - 8) \div sz)
         IN  [bs |-> flush_and_fill(b, b.pos + n * sz),
              vals |-> [t \in 0..(n - 1) |->
                          IF sz = 4 THEN bytestream_readu32(b, b.pos + t * 4)
                          ELSE bytestream_readu64(b, b.pos + t * 8)],
              num |-> n]

\* the value lane t stores to the output: the switch of "Store decoded values"
scatter_value(kind, v, t) ==
    IF kind = "SHORT" THEN BVTrunc(At(v, t), 16)
    ELSE IF kind = "BOOLEAN"
    THEN (IF (7 - (t % 8)) \in At(v, t \div 8) THEN {0} ELSE {})
    ELSE BVTrunc(At(v, t), ElemBits(kind))

\* the row window of the coming iteration: max_vals starts at the values to
\* skip, whose slots hold 0
DataWindow ==
    row_window([nrows |-> 0, max_vals |-> Min(chunk.skip_count, NTHREADS),
                row_ofs_plus1 |->
                   Over([t \in 0..(Min(chunk.skip_count, NTHREADS) - 1) |-> 0],
                        top.row_ofs_plus1)])

\* "2. Decode data streams", if (s->top.data.max_vals > 0)
DataDecoded(w) ==
    IF w.max_vals > 0
    THEN data_decode(chunk.type_kind, chunk.encoding_kind, bs, w.max_vals, w.max_vals)
    ELSE [bs |-> bs, vals |-> NoVals, num |-> 0]

\* a variant of data_adjust that also shrinks the window to a count of 0
data_adjust_to_zero(max_vals, numvals) == max_vals > 0 /\ numvals < max_vals

\* "Adjust the maximum number of values":
\* if (t == 0 && numvals > 0 && numvals < s->top.data.max_vals)
data_adjust(max_vals, numvals) == max_vals > 0 /\ numvals > 0 /\ numvals < max_vals

\* one iteration of the per-chunk loop: the row window, the decode, the
\* adjustment of max_vals and nrows, the scatter and the advance
DataBatch ==
    /\ phase = "data_loop"
    /\ top.cur_row < top.end_row
    /\ chunk.type_kind \in DataKinds
    /\ \E w \in {DataWindow} :
       \E d \in {DataDecoded(w)} :
       LET decoded == w.max_vals > 0
           adjust == data_adjust(w.max_vals, d.num)
           max_vals == IF adjust THEN d.num ELSE w.max_vals
           nrows == IF adjust THEN ofs_at(w.row_ofs_plus1, d.num - 1) ELSE w.nrows
           v == Over(d.vals, vals)
           \* "Store decoded values to output"
           row(t) == top.cur_row + ofs_at(w.row_ofs_plus1, t) - 1 - inp.first_row
           lanes == {t \in 0..(max_vals - 1) :
                       /\ decoded
                       /\ ofs_at(w.row_ofs_plus1, t) # 0
                       /\ row(t) >= 0 /\ row(t) < inp.max_num_rows}
           stored == [i \in {row(t) : t \in lanes} |->
                        scatter_value(chunk.type_kind, v,
                                      CHOOSE t \in lanes : row(t) = i)]
           break == max_vals = 0 /\ nrows = 0
       IN  /\ bs' = d.bs
           /\ vals' = v
           /\ gmem' = [gmem EXCEPT !.column_data = Over(stored, @)]
           /\ chunk' = [chunk EXCEPT !.skip_count = @ - Min(@, max_vals)]
           /\ top' = [top EXCEPT !.cur_row = @ + nrows, !.nrows = nrows,
                                 !.max_vals = max_vals, !.row_ofs_plus1 = w.row_ofs_plus1]
           /\ phase' = IF break \/ ~(top.cur_row + nrows < top.end_row)
                       THEN "done" ELSE "data_loop"
    /\ UNCHANGED <<inp, bs2, out>>

----------------------------------------------------------------------------
(* Specification SpecChunk: one column chunk goes through null decoding and *)
(* data decoding for a row window                                           *)

\* the bytes of 32-bit / 64-bit words as FLOAT and DOUBLE streams hold them
WordBytes(x, w) == [j \in 1..(w \div 8) |-> BVToNat(BVTrunc(BVShr(x, 8 * (j - 1)), 8))]

\* a chunk whose DATA stream is made of runs; values are the row values
RunChunk(kind, enc, runs) ==
    [type_kind |-> kind, encoding_kind |-> enc, bytes |-> StreamBytes(runs),
     values |-> StreamValues(runs), present |-> <<>>, num_rows |-> Len(StreamValues(runs)),
     kinds |-> {runs[i].kind : i \in 1..Len(runs)}]

\* a BOOLEAN chunk: the rows are the bits of the bytes, first row in bit 7
BoolChunk(runs, num_rows) ==
    [type_kind |-> "BOOLEAN", encoding_kind |-> "DIRECT", bytes |-> StreamBytes(runs),
     values |-> [k \in 1..num_rows |->
                   IF (7 - ((k - 1) % 8)) \in StreamValues(runs)[((k - 1) \div 8) + 1]
                   THEN {0} ELSE {}],
     present |-> <<>>, num_rows |-> num_rows, kinds |-> {runs[i].kind : i \in 1..Len(runs)}]

\* a FLOAT or DOUBLE chunk: the values as they lie in the stream
RawChunk(kind, xs) ==
    [type_kind |-> kind, encoding_kind |-> "DIRECT",
     bytes |-> Flatten([i \in 1..Len(xs) |-> WordBytes(xs[i], ElemBits(kind))]),
     values |-> xs, present |-> <<>>, num_rows |-> Len(xs), kinds |-> {"raw"}]

\* c with a PRESENT stream of the given runs for num_rows rows
WithPresent(c, runs, num_rows) ==
    [c EXCEPT !.present = StreamBytes(runs), !.num_rows = num_rows]

ChunkMenu ==
    LET i(n) == BVFromInt(n, 32)
        l(n) == BVFromInt(n, 64)
        tens == <<i(10), i(20), i(30), i(40), i(50)>>
    IN  { RunChunk("INT", "DIRECT_V2", <<V2Direct("i32", 7, tens)>>),
          RunChunk("INT", "DIRECT_V2", <<V2Delta("i32", 0, 5, i(10), i(10), <<>>)>>),
          RunChunk("INT", "DIRECT_V2",
                   <<V2ShortRepeat("i32", 1, 3, i(-9)), V2Direct("i32", 2, <<i(1), i(-2), i(3)>>)>>),
          RunChunk("INT", "DIRECT", <<V1Run("i32", 5, 10, i(10))>>),
          RunChunk("INT", "DIRECT", <<V1Lit("i32", <<i(-1), i(7)>>), V1Run("i32", 3, -1, i(2))>>),
          RunChunk("DATE", "DIRECT_V2", <<V2Direct("i32", 15, <<i(17000), i(-3)>>)>>),
          RunChunk("SHORT", "DIRECT_V2", <<V2Direct("i32", 15, <<i(-300), i(300), i(7)>>)>>),
          RunChunk("LONG", "DIRECT_V2",
                   <<V2Direct("i64", 28, <<{38}, l(-5)>>), V2ShortRepeat("i64", 1, 3, l(4))>>),
          RunChunk("LONG", "DIRECT", <<V1Run("i64", 4, 3, l(-6))>>),
          RunChunk("BYTE", "DIRECT", <<ByteRun(3, 200), ByteLit(<<1, 2>>)>>),
          BoolChunk(<<ByteLit(<<168>>)>>, 5),
          BoolChunk(<<ByteRun(3, 165)>>, 20),
          RawChunk("FLOAT", <<i(1065353216), i(-1), i(5)>>),
          RawChunk("DOUBLE", <<{62, 61, 60, 0}, l(-2)>>),
          WithPresent(RunChunk("INT", "DIRECT_V2", <<V2Direct("i32", 7, tens)>>),
                      <<ByteLit(<<182>>)>>, 8),
          WithPresent(RunChunk("BYTE", "DIRECT", <<ByteRun(9, 5)>>),
                      <<ByteLit(<<239, 192>>)>>, 10) }

\* first row of the chunk, and the row windows
StartRows == {0, 7}
FirstRows == {0, 2, 7, 9}
MaxNumRows == {2, 5, 64}
\* what unwritten memory holds
Junk == {{}, 0..63}

InitChunk ==
    /\ phase = "null_start"
    /\ \E c \in ChunkMenu, pl \in Placements, start_row \in StartRows,
          first_row \in FirstRows, max_num_rows \in MaxNumRows, junk \in Junk :
          /\ inp = [first_row |-> first_row, max_num_rows |-> max_num_rows,
                    junk |-> junk, values |-> c.values, kinds |-> c.kinds]
          /\ gmem = [chunks |-> [type_kind |-> c.type_kind,
                                 encoding_kind |-> c.encoding_kind,
                                 start_row |-> start_row, num_rows |-> c.num_rows,
                                 skip_count |-> 0, null_count |-> 0,
                                 dictionary_start |-> 0, dict_len |-> 0,
                                 data2 |-> NoStream,
                                 valid_map_base |-> "valid_map",
                                 data |-> [bytes |-> c.bytes, ofs |-> pl.ofs, pad |-> pl.pad],
                                 present |-> [bytes |-> c.present, ofs |-> 0, pad |-> pl.pad]],
                     valid_map |-> [w \in {} |-> {}],
                     column_data |-> [r \in {} |-> {}]]
    /\ chunk = Nothing
    /\ top = Nothing
    /\ bs = NoBs
    /\ bs2 = NoBs
    /\ vals = NoVals
    /\ out = Nothing

NextChunk == NullStart \/ NullBatch \/ NullFinish \/ DataStart \/ DataBatch

SpecChunk == InitChunk /\ [][NextChunk]_vars

NoPresent == Len(gmem.chunks.present.bytes) = 0

\* the value the column holds for the k-th row of the chunk (from 0)
RowValue(k) == BVTrunc(inp.values[k + 1],
                       IF gmem.chunks.type_kind = "SHORT" THEN 16
                       ELSE ElemBits(gmem.chunks.type_kind))

\* C1: for a chunk without PRESENT stream whose window covers the whole chunk
\* (first_row = start_row, max_num_rows >= num_rows), after both phases the
\* output holds the k-th value of the DATA stream at index k for every row k,
\* every validity bit of the window is 1 and null_count is 0.
C1_WholeChunkNoNulls ==
    (/\ phase = "done" /\ NoPresent
     /\ inp.first_row = gmem.chunks.start_row
     /\ inp.max_num_rows >= gmem.chunks.num_rows)
        => /\ \A k \in 0..(gmem.chunks.num_rows - 1) :
                 /\ At(gmem.column_data, k) = RowValue(k)
                 /\ valid_bit(gmem.valid_map, k) = 1
           /\ gmem.chunks.null_count = 0

\* C2: for any row window and a chunk without nulls, output index
\* r - first_row holds the value of row r for every row r of the chunk
\* inside the window, also when the window ends inside an encoded run.
C2_WindowNoNulls ==
    (phase = "done" /\ NoPresent)
        => \A r \in gmem.chunks.start_row..(gmem.chunks.start_row + gmem.chunks.num_rows - 1) :
              (r >= inp.first_row /\ r < inp.first_row + inp.max_num_rows)
                 => At(gmem.column_data, r - inp.first_row) = RowValue(r - gmem.chunks.start_row)

\* The whole-chunk property restricted to chunks without delta runs: the
\* other encodings of the menu come out right.
WholeChunkNoNullsButDelta == ("delta" \in inp.kinds) \/ C1_WholeChunkNoNulls

\* The window property restricted to windows that reach the end of the chunk
\* (no run is cut) and chunks without delta runs.
WindowToEndNoNulls ==
    (/\ "delta" \notin inp.kinds
     /\ inp.first_row + inp.max_num_rows >= gmem.chunks.start_row + gmem.chunks.num_rows)
        => C2_WindowNoNulls

----------------------------------------------------------------------------
(* Specification SpecNulls: the null decoding of one column chunk, for      *)
(* PRESENT streams of several shapes and row windows                        *)

\* 33 literal blocks of one byte each: more runs than one Byte_RLE call takes
ManyBlocks == [i \in 1..33 |-> ByteLit(<<(i * 37 + 90) % 256>>)]

\* PRESENT streams as [runs, num_rows]; the last four end before num_rows
\* rows are covered, or start with a run longer than the rows ask for
PresentMenu ==
    { [runs |-> <<>>, num_rows |-> 37],
      [runs |-> <<ByteLit(<<182, 90, 255, 0, 200>>)>>, num_rows |-> 37],
      [runs |-> <<ByteLit(<<239, 192>>)>>, num_rows |-> 10],
      [runs |-> <<ByteRun(5, 165)>>, num_rows |-> 40],
      [runs |-> <<ByteLit(<<77>>), ByteRun(3, 255), ByteLit(<<0, 129>>)>>, num_rows |-> 45],
      [runs |-> ManyBlocks, num_rows |-> 264],
      [runs |-> <<ByteLit(<<182, 90>>)>>, num_rows |-> 40],
      [runs |-> <<ByteLit(<<255>>), ByteRun(3, 255)>>, num_rows |-> 20],
      [runs |-> <<ByteLit(<<1, 2, 4, 8, 16, 32, 255>>)>>, num_rows |-> 100],
      [runs |-> <<ByteRun(5, 165)>>, num_rows |-> 20] }

NullStartRows == {0, 7}
NullFirstRows == {0, 5, 9, 270}
NullMaxNumRows == {2, 30, 64, 300}

InitNulls ==
    /\ phase = "null_start"
    /\ \E c \in PresentMenu, start_row \in NullStartRows, first_row \in NullFirstRows,
          max_num_rows \in NullMaxNumRows, junk \in Junk, pad \in PadBytes :
          /\ inp = [first_row |-> first_row, max_num_rows |-> max_num_rows,
                    junk |-> junk, present |-> StreamValues(c.runs)]
          /\ gmem = [chunks |-> [type_kind |-> "INT", encoding_kind |-> "DIRECT_V2",
                                 start_row |-> start_row, num_rows |-> c.num_rows,
                                 skip_count |-> 0, null_count |-> 0,
                                 dictionary_start |-> 0, dict_len |-> 0,
                                 data2 |-> NoStream,
                                 valid_map_base |-> "valid_map",
                                 data |-> NoStream,
                                 present |-> [bytes |-> StreamBytes(c.runs), ofs |-> 0,
                                              pad |-> pad]],
                     valid_map |-> [w \in {} |-> {}],
                     column_data |-> [r \in {} |-> {}]]
    /\ chunk = Nothing
    /\ top = Nothing
    /\ bs = NoBs
    /\ bs2 = NoBs
    /\ vals = NoVals
    /\ out = Nothing

NextNulls == NullStart \/ NullBatch \/ NullFinish

SpecNulls == InitNulls /\ [][NextNulls]_vars

\* the PRESENT stream holds exactly the bytes its rows need
WellFormedPresent ==
    NoPresent \/ Len(inp.present) = (gmem.chunks.num_rows + 7) \div 8

\* the PRESENT bit of the k-th row of the chunk (from 0): the stream packs
\* eight rows per byte, the first row in the most significant bit
PresentBit(k) ==
    IF NoPresent THEN 1
    ELSE IF (7 - (k % 8)) \in inp.present[(k \div 8) + 1] THEN 1 ELSE 0

\* bit k of the decoded bytes counted from the least significant bit of each
\* byte, which is the order of the validity bitmap itself
StoredBit(k) ==
    IF NoPresent THEN 1
    ELSE IF (k % 8) \in inp.present[(k \div 8) + 1] THEN 1 ELSE 0

\* output bit i belongs to a row of the chunk inside the row window
InWindow(i) ==
    /\ i >= 0 /\ i < inp.max_num_rows
    /\ i + inp.first_row >= gmem.chunks.start_row
    /\ i + inp.first_row < gmem.chunks.start_row + gmem.chunks.num_rows

\* the row of the chunk (from 0) that output bit i belongs to
RowOfBit(i) == i + inp.first_row - gmem.chunks.start_row

\* the bits of the bitmap the property looks at: every bit of a written word
\* and every bit of the window
BitmapBits ==
    {32 * w + b : w \in DOMAIN gmem.valid_map, b \in 0..31} \cup 0..(inp.max_num_rows - 1)

\* what a bit of the bitmap held before the kernel ran
JunkBit == IF 0 \in inp.junk THEN 1 ELSE 0

\* no validity bit of a row outside the window or outside the chunk changes
ValidityFrame ==
    \A i \in BitmapBits : ~InWindow(i) => valid_bit(gmem.valid_map, i) = JunkBit

\* C11: after the null phase, for every row r of the chunk inside
\* [first_row, first_row + max_num_rows) validity bit r - first_row equals the
\* PRESENT bit of row r, and no bit of a row outside the window or outside the
\* chunk's rows is modified.
C11_ValidityBitsInWindow ==
    (phase = "data_start" /\ WellFormedPresent)
        => /\ \A i \in BitmapBits :
                 InWindow(i) => valid_bit(gmem.valid_map, i) = PresentBit(RowOfBit(i))
           /\ ValidityFrame

\* The same with the bits of the decoded bytes taken least significant bit
\* first: the placement in the window and the frame are right.
ValidityBitsLsbFirst ==
    (phase = "data_start" /\ WellFormedPresent)
        => /\ \A i \in BitmapBits :
                 InWindow(i) => valid_bit(gmem.valid_map, i) = StoredBit(RowOfBit(i))
           /\ ValidityFrame

\* C12: after the null phase chunks[chunk_id].null_count is the number of
\* rows of the chunk inside the row window whose written validity bit is 0,
\* over all batches; rows outside the window are not counted.
C12_NullCountInWindow ==
    phase = "data_start"
        => gmem.chunks.null_count =
              Cardinality({i \in 0..(inp.max_num_rows - 1) :
                              InWindow(i) /\ valid_bit(gmem.valid_map, i) = 0})

\* a PRESENT stream decoded in two batches, the window starting inside the
\* chunk and ending before its end, with nulls inside and outside the window
C12_Witness ==
    /\ phase = "data_start" /\ ~NoPresent
    /\ gmem.chunks.num_rows = 264 /\ top.row = 264
    /\ inp.first_row = 9 /\ inp.max_num_rows = 30
    /\ gmem.chunks.null_count > 0
    /\ gmem.chunks.null_count
          < Cardinality({k \in 0..263 : StoredBit(k) = 0})

\* the valid rows of the chunk that lie before first_row, each counted once,
\* with the validity bits as the kernel itself stores them
ValidBelowWindow ==
    Cardinality({k \in 0..(gmem.chunks.num_rows - 1) :
                    gmem.chunks.start_row + k < inp.first_row /\ StoredBit(k) = 1})

\* C13: after the null phase, the skip_count of the chunk descriptor that the
\* data phase later reads (chunks[chunk_id], loaded again at the start of
\* gpuDecodeOrcColumnData) equals the number of valid rows of the chunk that
\* lie before first_row, each such row counted exactly once.
C13_SkipCountForDataPhase ==
    (phase = "data_start" /\ WellFormedPresent)
        => gmem.chunks.skip_count = ValidBelowWindow

\* What the kernel does compute: the count stays in the shared-memory copy of
\* the descriptor, and each of the 32 lanes of the first warp adds the whole
\* sum before the lanes are added up.
SkipCountSharedOnly ==
    (phase = "data_start" /\ WellFormedPresent)
        => /\ chunk.skip_count = 32 * ValidBelowWindow
           /\ gmem.chunks.skip_count = 0

\* the thread block runs until the kernel returns: it is at the end of the
\* null phase again and again, or it takes a step again and again
\* (WF_vars(NextNulls), with ENABLED <<NextNulls>>_vars written out as
\* phase # "data_start")
SpecNullsFair ==
    /\ SpecNulls
    /\ ([]<>(phase = "data_start") \/ []<><<NextNulls>>_vars)

\* the coming iteration of the null loop decodes no byte of the PRESENT stream
ZeroByteBatch ==
    /\ phase = "null_loop" /\ top.row < chunk.num_rows
    /\ Len(chunk.present.bytes) > 0
    /\ Byte_RLE(bs, (Min(chunk.num_rows - top.row, NTHREADS * 32) + 7) \div 8).num = 0

\* every row of rows lo..(hi-1) of the chunk that lies in the window has
\* validity bit 0 in bitmap m
RowsNullIn(m, lo, hi) ==
    \A i \in 0..(inp.max_num_rows - 1) :
        (InWindow(i) /\ RowOfBit(i) >= lo /\ RowOfBit(i) < hi) => valid_bit(m, i) = 0

\* an iteration that decodes no byte writes every row of its batch as null and
\* advances the row by the whole batch
ZeroBytesAdvance ==
    [][ZeroByteBatch =>
            LET nrows_max == Min(chunk.num_rows - top.row, NTHREADS * 32)
            IN  /\ top'.row = top.row + nrows_max
                /\ RowsNullIn(gmem'.valid_map, top.row, top.row + nrows_max)]_vars

\* C14: when a Byte_RLE call in the null phase produces 0 bytes, all rows of
\* that batch are written as null and the row cursor advances by the full
\* batch size, and the null-phase loop terminates for every PRESENT content.
C14_ZeroBytesAllNull == ZeroBytesAdvance /\ <>(phase = "data_start")

\* a stream of 7 bytes for 100 rows: the second batch decodes nothing, and the
\* rows 56..99 it covers are null in a bitmap that held ones before
C14_Witness ==
    /\ phase = "data_start" /\ gmem.chunks.num_rows = 100 /\ top.row = 100
    /\ Len(inp.present) = 7 /\ bs.pos = 8
    /\ inp.first_row = 0 /\ gmem.chunks.start_row = 0 /\ inp.max_num_rows = 300
    /\ JunkBit = 1
    /\ \A i \in 56..99 : valid_bit(gmem.valid_map, i) = 0

(* ---- string dictionaries (gpuDecodeNullsAndStringDictionaries) ---- *)

\* a variant of dict_numvals whose fallback covers the whole thread block
dict_numvals_whole_block(numvals, dict_len) ==
    IF numvals = 0 THEN NTHREADS ELSE numvals

\* "This is an error (ran out of data)": a batch that decoded nothing covers
\* min(dict_len, NTHREADS) entries
dict_numvals(numvals, dict_len) ==
    IF numvals = 0 THEN Min(dict_len, NTHREADS) ELSE numvals

\* a variant of dict_entry_len that takes vals[t] whatever was decoded
dict_entry_len_unguarded(v, t, numvals) == IF t \in DOMAIN v THEN v[t] ELSE {}

\* len = (t < numvals) ? vals[t] : 0
dict_entry_len(v, t, numvals) == IF t < numvals THEN v[t] ELSE {}

\* dict_entry.x = dict_pos + vals[t] - len; dict_entry.y = len
dict_entry(dict_pos, pos, len) ==
    [x |-> BVAdd(BVAdd(dict_pos, pos, 32), BVNeg(len, 32), 32), y |-> len]

\* the block of a dictionary chunk loads the descriptor; for a dictionary
\* encoding with entries it sets up the LENGTH stream (CI_DATA2)
DictStart ==
    /\ phase = "dict_start"
    /\ chunk' = gmem.chunks
    /\ IF /\ gmem.chunks.encoding_kind \in {"DICTIONARY", "DICTIONARY_V2"}
          /\ gmem.chunks.dict_len > 0
       THEN /\ phase' = "dict_loop"
            /\ top' = [dict_len |-> gmem.chunks.dict_len,
                       local_dict |-> gmem.chunks.dictionary_start,
                       dict_pos |-> {}]
            /\ bs' = bytestream_initbuf(bytestream_init(gmem.chunks.data2))
       ELSE /\ phase' = "dict_done"
            /\ UNCHANGED <<top, bs>>
    /\ UNCHANGED <<inp, bs2, vals, out, gmem>>

\* one iteration of the dictionary loop: decode up to NTHREADS lengths, turn
\* them into positions, store one entry per lane, advance the cursors; out
\* counts the stores to each index of the global dictionary
DictBatch ==
    /\ phase = "dict_loop"
    /\ top.dict_len > 0
    /\ \E d \in {IF IS_RLEv1(chunk.encoding_kind)
                 THEN Integer_RLEv1(bs, Min(top.dict_len, NTHREADS), "u32")
                 ELSE Integer_RLEv2(bs, Min(top.dict_len, NTHREADS), "u32")} :
       \E v0 \in {Over(d.vals, vals)} :
       \E numvals \in {dict_numvals(d.num, top.dict_len)} :
       \E v \in {IF d.num = 0
                 THEN [t \in 0..(NTHREADS - 1) |-> {}]
                 ELSE lengths_to_positions(v0, d.num, 32)} :
       \E stored \in {[i \in {top.local_dict + t : t \in 0..(numvals - 1)} |->
                         dict_entry(top.dict_pos, v[i - top.local_dict],
                                    dict_entry_len(v0, i - top.local_dict, d.num))]} :
           /\ bs' = d.bs
           /\ vals' = v
           /\ gmem' = [gmem EXCEPT !.global_dictionary = Over(stored, @)]
           /\ out' = [i \in (DOMAIN out) \cup (DOMAIN stored) |->
                        (IF i \in DOMAIN out THEN out[i] ELSE 0)
                        + (IF i \in DOMAIN stored THEN 1 ELSE 0)]
           /\ top' = [dict_len |-> top.dict_len - numvals,
                      local_dict |-> top.local_dict + numvals,
                      dict_pos |-> BVAdd(top.dict_pos, v[numvals - 1], 32)]
    /\ UNCHANGED <<phase, inp, bs2, chunk>>

\* the loop ends when no entry is left
DictFinish ==
    /\ phase = "dict_loop"
    /\ ~(top.dict_len > 0)
    /\ phase' = "dict_done"
    /\ UNCHANGED <<inp, bs, bs2, vals, out, chunk, top, gmem>>

(* ---- SpecDict: the dictionary of one chunk ---- *)

\* n lengths 0..6 in a direct run of 4-bit fields
LengthBlock(n) == V2Direct("u32", 3, [i \in 1..n |-> BVFromNat((i * 5) % 7)])

\* LENGTH streams with the number of entries the descriptor names: streams
\* that hold exactly dict_len lengths, in one batch and in two, and streams
\* that end early or hold a run that passes dict_len
DictMenu ==
    LET u(n) == BVFromNat(n)
        l4 == <<u(3), u(0), u(7), u(2)>>
    IN  { [enc |-> "DICTIONARY_V2", dict_len |-> 4, runs |-> <<V2Direct("u32", 3, l4)>>],
          [enc |-> "DICTIONARY", dict_len |-> 4, runs |-> <<V1Lit("u32", l4)>>],
          [enc |-> "DICTIONARY", dict_len |-> 7,
           runs |-> <<V1Run("u32", 5, 1, u(2)), V1Lit("u32", <<u(9), u(0)>>)>>],
          [enc |-> "DICTIONARY_V2", dict_len |-> 7,
           runs |-> <<V2ShortRepeat("u32", 1, 4, u(6)), V2Direct("u32", 3, <<u(1), u(2), u(3)>>)>>],
          [enc |-> "DICTIONARY_V2", dict_len |-> 1030,
           runs |-> <<LengthBlock(500), LengthBlock(500), LengthBlock(30)>>],
          [enc |-> "DICTIONARY_V2", dict_len |-> 5,
           runs |-> <<V2Delta("u32", 0, 5, u(10), u(10), <<>>)>>],
          [enc |-> "DICTIONARY", dict_len |-> 2, runs |-> <<V1Lit("u32", <<u(300), u(2)>>)>>],
          [enc |-> "DICTIONARY_V2", dict_len |-> 6, runs |-> <<V2Direct("u32", 3, l4)>>],
          [enc |-> "DICTIONARY", dict_len |-> 4, runs |-> <<V1Run("u32", 5, 1, u(2))>>],
          [enc |-> "DICTIONARY", dict_len |-> 6,
           runs |-> <<V1Lit("u32", l4), V1Run("u32", 3, 0, u(8))>>],
          [enc |-> "DICTIONARY_V2", dict_len |-> 3, runs |-> <<>>],
          [enc |-> "DICTIONARY_V2", dict_len |-> 0, runs |-> <<>>],
          [enc |-> "DIRECT_V2", dict_len |-> 0, runs |-> <<>>] }

DictionaryStarts == {0, 40}

InitDict ==
    /\ phase = "dict_start"
    /\ \E c \in DictMenu, dictionary_start \in DictionaryStarts,
          ofs \in StreamOffsets, pad \in PadBytes :
          /\ inp = [lengths |-> StreamValues(c.runs),
                    kinds |-> {c.runs[i].kind : i \in 1..Len(c.runs)}]
          /\ gmem = [chunks |-> [type_kind |-> "STRING", encoding_kind |-> c.enc,
                                 dict_len |-> c.dict_len,
                                 dictionary_start |-> dictionary_start,
                                 data2 |-> [bytes |-> StreamBytes(c.runs), ofs |-> ofs,
                                            pad |-> pad]],
                     global_dictionary |-> [i \in {} |-> {}]]
    /\ chunk = Nothing
    /\ top = Nothing
    /\ bs = NoBs
    /\ bs2 = NoBs
    /\ vals = NoVals
    /\ out = [i \in {} |-> 0]

NextDict == DictStart \/ DictBatch \/ DictFinish

SpecDict == InitDict /\ [][NextDict]_vars

\* the LENGTH stream holds exactly the lengths of the dict_len entries
WellFormedLengths ==
    /\ gmem.chunks.encoding_kind \in {"DICTIONARY", "DICTIONARY_V2"}
    /\ Len(inp.lengths) = gmem.chunks.dict_len

\* the length of entry k (from 0) as the writer encoded it
EntryLength(k) == BVToNat(inp.lengths[k + 1])

\* the sum of the lengths of the entries lo..hi
RECURSIVE SumLengths(_, _)
SumLengths(lo, hi) ==
    IF lo > hi THEN 0
    ELSE IF lo = hi THEN EntryLength(lo)
    ELSE SumLengths(lo, (lo + hi) \div 2) + SumLengths(((lo + hi) \div 2) + 1, hi)

\* entry k of the chunk holds (sum of the lengths before it, its length)
EntryIsPair(k) ==
    /\ (gmem.chunks.dictionary_start + k) \in DOMAIN gmem.global_dictionary
    /\ gmem.global_dictionary[gmem.chunks.dictionary_start + k]
          = [x |-> BVFromNat(SumLengths(0, k - 1)), y |-> inp.lengths[k + 1]]

\* C15: dictionary materialization writes, for the k-th dictionary entry of a
\* chunk (counted across all batches), the pair (sum of the lengths of the
\* entries 0..k-1, length of entry k) at global_dictionary[dictionary_start + k];
\* lengths {3,0,7,2} give {(0,3),(3,0),(3,7),(10,2)}.
C15_DictionaryPairs ==
    (phase = "dict_done" /\ WellFormedLengths)
        => \A k \in 0..(gmem.chunks.dict_len - 1) : EntryIsPair(k)

\* The same for LENGTH streams the integer decoders read as written: no
\* RLE v2 delta run, and no RLE v1 varint of more than one byte.
DictionaryPairsOfDecodedLengths ==
    (/\ phase = "dict_done" /\ WellFormedLengths
     /\ "delta" \notin inp.kinds
     /\ IS_RLEv1(gmem.chunks.encoding_kind)
           => \A k \in 0..(gmem.chunks.dict_len - 1) : EntryLength(k) < 128)
        => \A k \in 0..(gmem.chunks.dict_len - 1) : EntryIsPair(k)

\* the example of the lengths {3,0,7,2}, in either encoding
DictionaryPairsExample ==
    (/\ phase = "dict_done" /\ WellFormedLengths
     /\ [k \in 1..Len(inp.lengths) |-> BVToNat(inp.lengths[k])] = <<3, 0, 7, 2>>)
        => [k \in 0..3 |->
              LET e == gmem.global_dictionary[gmem.chunks.dictionary_start + k]
              IN  <<BVToNat(e.x), BVToNat(e.y)>>]
           = [k \in 0..3 |-> <<<<0, 3>>, <<3, 0>>, <<3, 7>>, <<10, 2>>>>[k + 1]]

\* chunks of a few entries, among them the LENGTH streams that end early
InitDictShort == InitDict /\ gmem.chunks.dict_len < 10

\* the thread block runs until the kernel returns: it is at the end of the
\* dictionary phase again and again, or it takes a step again and again
\* (WF_vars(NextDict), with ENABLED <<NextDict>>_vars written out as
\* phase # "dict_done")
SpecDictFair ==
    /\ InitDictShort /\ [][NextDict]_vars
    /\ ([]<>(phase = "dict_done") \/ []<><<NextDict>>_vars)

\* the coming iteration of the dictionary loop decodes no length
ZeroLengthBatch ==
    /\ phase = "dict_loop" /\ top.dict_len > 0
    /\ (IF IS_RLEv1(chunk.encoding_kind)
        THEN Integer_RLEv1(bs, Min(top.dict_len, NTHREADS), "u32")
        ELSE Integer_RLEv2(bs, Min(top.dict_len, NTHREADS), "u32")).num = 0

\* an iteration that decodes nothing stores length 0 in every entry of its
\* batch
ZeroLengthsStored ==
    [][ZeroLengthBatch =>
          \A t \in 0..(Min(top.dict_len, NTHREADS) - 1) :
             /\ (top.local_dict + t) \in DOMAIN gmem'.global_dictionary
             /\ gmem'.global_dictionary[top.local_dict + t].y = {}]_vars

\* every iteration of the loop takes at least one entry off dict_len
DictLenDecreases ==
    [][(phase = "dict_loop" /\ top.dict_len > 0)
          => (top'.dict_len < top.dict_len /\ top'.dict_len >= 0)]_vars

\* C16: when the LENGTH decoder returns 0 values during dictionary
\* materialization, the remaining entries of that batch are written with
\* length 0, dict_len decreases by at least 1 in every iteration, and the
\* dictionary loop terminates for every stream content.
C16_ZeroLengthsTerminate ==
    ZeroLengthsStored /\ DictLenDecreases /\ <>(phase = "dict_done")

\* six entries and a LENGTH stream of four literals and a run of three: the
\* second batch decodes nothing, and the last two entries have length 0
C16_Witness ==
    /\ phase = "dict_done" /\ gmem.chunks.dict_len = 6 /\ Len(inp.lengths) = 7
    /\ top.dict_len = 0
    /\ \A k \in 4..5 :
          /\ (gmem.chunks.dictionary_start + k) \in DOMAIN gmem.global_dictionary
          /\ gmem.global_dictionary[gmem.chunks.dictionary_start + k].y = {}
    /\ gmem.global_dictionary[gmem.chunks.dictionary_start + 2].y = BVFromNat(7)

\* the slice of the global dictionary that belongs to the chunk
DictionarySlice ==
    {gmem.chunks.dictionary_start + k : k \in 0..(gmem.chunks.dict_len - 1)}

\* C17: all dictionary entries written for a chunk lie at indices in
\* [dictionary_start, dictionary_start + dict_len) of the global dictionary
\* array, each index is written exactly once, and no index outside that slice
\* is written.
C17_DictionarySliceOnce ==
    /\ DOMAIN gmem.global_dictionary \subseteq DictionarySlice
    /\ DOMAIN out = DOMAIN gmem.global_dictionary
    /\ \A i \in DOMAIN out : out[i] = 1
    /\ (phase = "dict_done"
        /\ gmem.chunks.encoding_kind \in {"DICTIONARY", "DICTIONARY_V2"})
           => DOMAIN gmem.global_dictionary = DictionarySlice

\* a slice of 1030 entries that starts at 40, written in two batches
C17_Witness ==
    /\ phase = "dict_done"
    /\ gmem.chunks.dict_len = 1030 /\ gmem.chunks.dictionary_start = 40
    /\ top.local_dict = 1070
    /\ out[40] = 1 /\ out[1039] = 1 /\ out[1040] = 1 /\ out[1069] = 1

----------------------------------------------------------------------------
(* Specification SpecPresent: a column chunk with a PRESENT stream goes      *)
(* through null decoding and data decoding for a row window                  *)

\* a chunk with a PRESENT stream, and the bytes the stream stands for
PresentChunk(c, runs, num_rows) ==
    [chunk |-> WithPresent(c, runs, num_rows), present |-> StreamValues(runs)]

\* chunks with nulls: PRESENT bytes that read the same from either end (189,
\* 255, 0), and bytes that do not (182, 13, 239 192)
PresentChunkMenu ==
    LET i(n) == BVFromInt(n, 32)
        tens(n) == [k \in 1..n |-> i(10 * k)]
    IN  { PresentChunk(RunChunk("INT", "DIRECT_V2", <<V2Direct("i32", 7, tens(5))>>),
                      <<ByteLit(<<182>>)>>, 8),
          PresentChunk(RunChunk("INT", "DIRECT_V2", <<V2Direct("i32", 7, tens(6))>>),
                      <<ByteLit(<<189>>)>>, 8),
          PresentChunk(RunChunk("INT", "DIRECT_V2", <<V2Direct("i32", 7, tens(3))>>),
                      <<ByteLit(<<13>>)>>, 5),
          PresentChunk(RunChunk("INT", "DIRECT", <<V1Run("i32", 8, 1, i(1))>>),
                      <<ByteLit(<<255>>)>>, 8),
          PresentChunk(RunChunk("INT", "DIRECT_V2",
                               <<V2Direct("i32", 7, tens(3)), V2Direct("i32", 7, tens(3))>>),
                      <<ByteLit(<<189>>)>>, 8),
          PresentChunk(RunChunk("INT", "DIRECT_V2", <<>>), <<ByteLit(<<0>>)>>, 8),
          PresentChunk(RunChunk("BYTE", "DIRECT", <<ByteRun(9, 5)>>),
                      <<ByteLit(<<239, 192>>)>>, 10) }

InitPresent ==
    /\ phase = "null_start"
    /\ \E p \in PresentChunkMenu, start_row \in StartRows,
          first_row \in FirstRows, max_num_rows \in MaxNumRows, junk \in Junk :
          /\ inp = [first_row |-> first_row, max_num_rows |-> max_num_rows,
                    junk |-> junk, values |-> p.chunk.values, kinds |-> p.chunk.kinds,
                    present |-> p.present]
          /\ gmem = [chunks |-> [type_kind |-> p.chunk.type_kind,
                                 encoding_kind |-> p.chunk.encoding_kind,
                                 start_row |-> start_row, num_rows |-> p.chunk.num_rows,
                                 skip_count |-> 0, null_count |-> 0,
                                 dictionary_start |-> 0, dict_len |-> 0,
                                 data2 |-> NoStream,
                                 valid_map_base |-> "valid_map",
                                 data |-> [bytes |-> p.chunk.bytes, ofs |-> 0, pad |-> 0],
                                 present |-> [bytes |-> p.chunk.present, ofs |-> 0,
                                              pad |-> 0]],
                     valid_map |-> [w \in {} |-> {}],
                     column_data |-> [r \in {} |-> {}]]
    /\ chunk = Nothing
    /\ top = Nothing
    /\ bs = NoBs
    /\ bs2 = NoBs
    /\ vals = NoVals
    /\ out = Nothing

SpecPresent == InitPresent /\ [][NextChunk]_vars

\* an iteration of the data loop of a chunk with PRESENT stream is coming
AtRowWindow ==
    /\ phase = "data_loop" /\ top.cur_row < top.end_row
    /\ Len(chunk.present.bytes) > 0

\* the rows of the window w, counted from cur_row, that the validity bitmap
\* marks valid
ValidRowsOf(w) ==
    {j \in 0..(w.nrows - 1) :
        LET r == top.cur_row + j - inp.first_row
        IN  /\ r >= 0 /\ r < top.end_row - Min(inp.first_row, top.end_row)
            /\ valid_bit(gmem.valid_map, r) = 1}

\* the k-th smallest element of the set S of numbers (k from 1)
KthOf(S, k) == CHOOSE j \in S : Cardinality({i \in S : i < j}) = k - 1

\* the slots of the values to skip
SkippedSlots == Min(chunk.skip_count, NTHREADS)

\* C18: after the row window is computed for a chunk with PRESENT stream, the
\* row-offset entries that follow the skipped slots are exactly 1 + relative
\* row index of the valid rows of the window, in strictly increasing order,
\* and max_vals minus the skipped slots is the number of valid rows among the
\* nrows rows of the window.
C18_RowOffsetsPlus1 ==
    AtRowWindow
        => \E w \in {DataWindow} :
              /\ w.max_vals - SkippedSlots = Cardinality(ValidRowsOf(w))
              /\ \A k \in 1..Cardinality(ValidRowsOf(w)) :
                    ofs_at(w.row_ofs_plus1, SkippedSlots + k - 1)
                       = 1 + KthOf(ValidRowsOf(w), k)

\* What the kernel stores: the relative row index itself, so that the first
\* row of a window, when valid, gets the entry 0 of a skipped slot.
RowOffsetsWithoutPlus1 ==
    AtRowWindow
        => \E w \in {DataWindow} :
              /\ w.max_vals - SkippedSlots = Cardinality(ValidRowsOf(w))
              /\ \A k \in 1..Cardinality(ValidRowsOf(w)) :
                    ofs_at(w.row_ofs_plus1, SkippedSlots + k - 1)
                       = KthOf(ValidRowsOf(w), k)

\* the per-lane position nz_pos for the validity bits 1,0,1,1,0 is 1,0,2,3,0
NzPosExample ==
    LET valid == <<1, 0, 1, 1, 0>>
        sums == lengths_to_positions([t \in 0..4 |-> BVFromNat(valid[t + 1])], 5, 16)
    IN  [t \in 0..4 |-> IF valid[t + 1] = 1 THEN BVToNat(sums[t]) ELSE 0]
           = [t \in 0..4 |-> <<1, 0, 2, 3, 0>>[t + 1]]

\* the PRESENT bytes give every row the same bit from either end, so that the
\* validity bitmap marks exactly the rows that have a value in the DATA stream
PresentReadsSame ==
    \A k \in 0..(gmem.chunks.num_rows - 1) : StoredBit(k) = PresentBit(k)

\* the number of values of the DATA stream that belong to rows before row k
\* of the chunk
ValuesBefore(k) == Cardinality({j \in 0..(k - 1) : StoredBit(j) = 1})

\* C19: in the data phase of a chunk with a PRESENT stream the k-th non-null
\* row of the window receives the k-th value of the DATA stream that follows
\* the values of the rows before the window, and no value is written to a
\* null row, dropped or decoded twice.
C19_NonNullRowsGetValues ==
    (phase = "done" /\ ~NoPresent /\ PresentReadsSame)
        => \A i \in 0..(inp.max_num_rows - 1) :
              InWindow(i)
                 => IF StoredBit(RowOfBit(i)) = 1
                    THEN /\ i \in DOMAIN gmem.column_data
                         /\ gmem.column_data[i] = RowValue(ValuesBefore(RowOfBit(i)))
                    ELSE i \notin DOMAIN gmem.column_data

\* The null phase in front of it is right for these chunks: the validity bits
\* of the window are the PRESENT bits.
PresentBitsStored ==
    (phase = "done" /\ ~NoPresent /\ PresentReadsSame)
        => \A i \in 0..(inp.max_num_rows - 1) :
              InWindow(i) => valid_bit(gmem.valid_map, i) = PresentBit(RowOfBit(i))

\* an iteration of the data loop is coming
AtDataBatch ==
    /\ phase = "data_loop" /\ top.cur_row < top.end_row
    /\ chunk.type_kind \in DataKinds

\* the output indices whose content the step changes
ScatteredRows ==
    {i \in DOMAIN gmem'.column_data :
        i \notin DOMAIN gmem.column_data \/ gmem'.column_data[i] # gmem.column_data[i]}

\* the step leaves max_vals at numvals and changes only output rows of the
\* value slots below numvals
AdjustedTo(w, numvals) ==
    /\ top'.max_vals = numvals
    /\ \A i \in ScatteredRows :
          \E t \in 0..(numvals - 1) :
             i = top.cur_row + ofs_at(w.row_ofs_plus1, t) - 1 - inp.first_row

\* C20: whenever the decoder of the data phase returns fewer values than
\* max_vals, including when it returns 0, max_vals is reduced to the returned
\* count before the scatter, so that no lane scatters a value slot that was
\* not decoded in this iteration.
C20_ShortDecodeAdjusts ==
    [][AtDataBatch =>
          \E w \in {DataWindow} : \E d \in {DataDecoded(w)} :
             (w.max_vals > 0 /\ d.num < w.max_vals) => AdjustedTo(w, d.num)]_vars

\* The same when the decoder returns at least one value.
ShortDecodeAdjustsButZero ==
    [][AtDataBatch =>
          \E w \in {DataWindow} : \E d \in {DataDecoded(w)} :
             (d.num > 0 /\ d.num < w.max_vals) => AdjustedTo(w, d.num)]_vars

\* an iteration that decoded some but not all values of its window has run
SomeShortDecode ==
    /\ phase \in {"data_loop", "done"} /\ top.max_vals > 0
    /\ top.max_vals < Min(top.end_row - (top.cur_row - top.nrows), NTHREADS)
    /\ NoPresent

----------------------------------------------------------------------------
(* varint_length against decode_varint *)

\* the number of bytes decode_varint<T> consumes at the stream position
VarintBytes == decode_varint(bs, bs.pos, inp.T).pos - bs.pos

\* C26: for every varint in the buffer, varint_length<T>(pos) equals the
\* number of bytes decode_varint<T> consumes from pos, for every encoded
\* length 1..5 with a 32-bit T and 1..10 with a 64-bit T.
C26_VarintLengthIsBytesConsumed ==
    phase = "varint_len" => out.len = VarintBytes

\* what varint_length answers for a 32-bit T: 1 for a varint of one byte, one
\* more than the length for 2..4 bytes, and 1 for a varint of 5 bytes
VarintLengthOffByOne32 ==
    (phase = "varint_len" /\ TypeBits(inp.T) = 32)
        => out.len = (IF VarintBytes = 1 \/ VarintBytes = 5 THEN 1
                      ELSE VarintBytes + 1)

\* a varint of one byte has length 1 for either width
VarintLengthOneByte ==
    (phase = "varint_len" /\ VarintBytes = 1) => out.len = 1

----------------------------------------------------------------------------
(* Specification SpecPatchedBase: the base value of a patched-base run *)

\* a patched-base run without patch entries: its base field of bw bytes holds
\* the magnitude mag, and the sign in the top bit; the values are the base
\* plus the offsets
V2PatchedBase(T, code, bw, neg, mag, offs) ==
    LET W == TypeBits(T)
        n == Len(offs)
        basefield == mag \cup (IF neg THEN {8 * bw - 1} ELSE {})
        base == IF neg THEN BVNeg(mag, W) ELSE mag
    IN  [kind |-> "patched", n |-> n, neg |-> neg, bw |-> bw, mag |-> mag,
         offs |-> offs,
         bytes |-> V2Header(2, code, n) \o <<32 * (bw - 1), 0>>
                   \o PackFields(<<basefield>>, 8 * bw)
                   \o PackFields(offs, RLEv2Width(code)),
         values |-> [i \in 1..n |-> BVAdd(base, offs[i], W)]]

\* magnitudes of a base of bw bytes: 0, 1, 5, the top magnitude bit alone and
\* the largest
BaseMagnitudes(bw) ==
    {{}, {0}, {0, 2}, {8 * bw - 2}, 0..(8 * bw - 2)}

\* one run for every element type, every base width the type holds, either
\* sign and every magnitude above
PatchedBaseRuns(T) ==
    UNION { { V2PatchedBase(T, 3, bw, neg, mag, <<{0}, {1}, {0, 1}>>) :
                neg \in BOOLEAN, mag \in BaseMagnitudes(bw) } :
            bw \in 1..(TypeBits(T) \div 8) }

InitPatchedBase ==
    /\ phase = "rle"
    /\ \E T \in DecoderTypes, pl \in Placements :
         \E run \in PatchedBaseRuns(T) :
            /\ inp = [dec |-> "rlev2", T |-> T, runs |-> <<run>>]
            /\ bs = bytestream_initbuf(bytestream_init(
                       [bytes |-> run.bytes, ofs |-> pl.ofs, pad |-> pl.pad]))
    /\ bs2 = NoBs
    /\ vals = NoVals
    /\ out = [values |-> <<>>, maxvals |-> 0, num |-> 0, from |-> 0]
    /\ chunk = Nothing
    /\ top = Nothing
    /\ gmem = Nothing

SpecPatchedBase == InitPatchedBase /\ [][DecodeRLEv2]_vars

\* the base the run was written with, as the writer's sign and magnitude
PatchedRun == inp.runs[1]

\* C28: in patched-base mode the base is sign-magnitude over its bw bytes:
\* minus the remaining bits when the top bit of the field is set, the field
\* itself otherwise, for the 32-bit and the 64-bit element type and every bw in
\* 1..8 that fits the type.
C28_PatchedBaseSignMagnitude ==
    (phase = "rle" /\ out.num > 0) => out.values = Expected

\* the base is read right by the 32-bit decoder, and by the 64-bit decoder
\* when the sign bit is clear
PatchedBaseBut64Negative ==
    (/\ phase = "rle" /\ out.num > 0
     /\ ~(TypeBits(inp.T) = 64 /\ PatchedRun.neg))
        => out.values = Expected

\* the 64-bit decoder takes the whole field, sign bit included, as the base
PatchedBase64WholeField ==
    (phase = "rle" /\ out.num > 0 /\ TypeBits(inp.T) = 64 /\ PatchedRun.neg)
        => \A i \in 1..PatchedRun.n :
              out.values[i] = BVAdd(PatchedRun.mag \cup {8 * PatchedRun.bw - 1},
                                    PatchedRun.offs[i], 64)

----------------------------------------------------------------------------
(* gpuDecodeOrcColumnData for the kinds with a secondary stream: the string *)
(* kinds and TIMESTAMP                                                      *)

\* a * b on w bits
RECURSIVE BVMul(_, _, _)
BVMul(a, b, w) ==
    IF b = {} THEN {}
    ELSE LET i == CHOOSE j \in b : \A k \in b : j <= k
         IN  BVAdd(BVShl(a, i, w), BVMul(a, b \ {i}, w), w)

kTimestampNanoScale == <<1, 100, 1000, 1000, 10000, 100000, 1000000, 10000000>>

\* the elements a decoder wrote, seen from the array it was handed as
\* &vals[ofs]
ShiftTo(f, ofs) == [i \in {ofs + j : j \in DOMAIN f} |-> f[i - ofs]]

\* Integer_RLEv1 or Integer_RLEv2, by the encoding of the chunk
integer_rle(encoding_kind, b, maxvals, T) ==
    IF IS_RLEv1(encoding_kind) THEN Integer_RLEv1(b, maxvals, T)
    ELSE Integer_RLEv2(b, maxvals, T)

\* "For these data types, we have a secondary unsigned 32-bit data stream":
\* the buffered values of a TIMESTAMP chunk are moved to the front, the rest
\* of the max_vals values are decoded behind them from the stream b, and a
\* decode that returns nothing leaves zeroes.  [bs, vals, num]: the stream
\* after the decode, the elements written and the new numvals
data_secondary(kind, encoding_kind, b, v, max_vals, buffered_pos, ofs) ==
    LET restored == IF kind = "TIMESTAMP" /\ ofs > 0
                    THEN [t \in 0..(ofs - 1) |-> BVTrunc(At(v, buffered_pos + t), 32)]
                    ELSE NoVals
    IN  IF max_vals > ofs
        THEN CHOOSE r \in
               {[bs |-> d.bs, num |-> ofs + d.num,
                 vals |-> Over(IF d.num = 0
                               THEN [t \in ofs..(max_vals - 1) |-> {}] ELSE NoVals,
                               Over(ShiftTo(d.vals, ofs), restored))] :
                   d \in {integer_rle(encoding_kind, b, max_vals - ofs, "u32")}} : TRUE
        ELSE [bs |-> b, num |-> max_vals, vals |-> restored]

\* "For strings with direct encoding, we need to convert the lengths into an
\* offset": vals.u32[NTHREADS + t] of every lane t
string_positions(v, numvals) ==
    ShiftTo(lengths_to_positions(
                [t \in 0..(NTHREADS - 1) |-> IF t < numvals THEN BVTrunc(At(v, t), 32) ELSE {}],
                numvals, 32),
            NTHREADS)

\* max_vals and nrows after "Adjust the maximum number of values"
data_adjusted(row_ofs_plus1, a, numvals) ==
    IF data_adjust(a.max_vals, numvals)
    THEN [max_vals |-> numvals, nrows |-> ofs_at(row_ofs_plus1, numvals - 1)]
    ELSE a

\* global_dictionary[i]
dictionary_at(i) ==
    IF i \in DOMAIN gmem.global_dictionary THEN gmem.global_dictionary[i]
    ELSE [x |-> BVTrunc(inp.junk, 32), y |-> BVTrunc(inp.junk, 32)]

\* count = 0; ptr = (uint8_t *)0xdeadbeef
Sentinel == [ptr |-> [base |-> "0xdeadbeef", ofs |-> {}], count |-> {}]

\* what an uninitialized 32-bit local may hold
UninitializedWords == {{}, {0}, {1}, {2}, {0, 2}, 0..31}

\* the descriptor lane t stores for a string: a pointer, as a stream base and
\* a byte offset, and a count.  For a direct encoding dict_idx is computed
\* from count before count is assigned: the value read is whatever the
\* register holds (uninitialized)
string_desc(c, v, t, uninitialized) ==
    IF IS_DICTIONARY(c.encoding_kind)
    THEN LET dict_idx == BVTrunc(At(v, t), 32)
         IN  IF BVGt(BVFromNat(c.dict_len), dict_idx)
             THEN LET e == dictionary_at(BVToNat(BVAdd(c.dictionary_start, dict_idx, 32)))
                  IN  [ptr |-> [base |-> "CI_DICTIONARY", ofs |-> e.x], count |-> e.y]
             ELSE Sentinel
    ELSE LET dict_idx == BVAdd(BVAdd(c.dictionary_start, BVTrunc(At(v, NTHREADS + t), 32), 32),
                               BVNeg(uninitialized, 32), 32)
             count == BVTrunc(At(v, t), 32)
         IN  IF BVGt(BVAdd(dict_idx, count, 32), BVFromNat(Len(c.data.bytes)))
             THEN Sentinel
             ELSE [ptr |-> [base |-> "CI_DATA", ofs |-> dict_idx], count |-> count]

\* seconds * 1000000000ll + nanos with nanos = (nanos >> 7) *
\* kTimestampNanoScale[nanos & 7] on 32 bits; u32 is the 32-bit word that is
\* widened to the int64_t seconds
timestamp_ns(u32, nanos) ==
    LET scaled == BVMul(BVShr(nanos, 7),
                        BVFromNat(kTimestampNanoScale[BVToNat(BVTrunc(nanos, 3)) + 1]), 32)
    IN  BVAdd(BVMul(u32, BVFromNat(1000000000), 64), scaled, 64)

\* the value lane t stores for a TIMESTAMP: int64_t seconds =
\* s->vals.u32[NTHREADS + t]; uint32_t nanos = s->vals.u32[t]
timestamp_value(v, t) ==
    timestamp_ns(BVTrunc(At(v, NTHREADS + t), 32), BVTrunc(At(v, t), 32))

\* one iteration of the per-chunk loop for a string kind or TIMESTAMP: the
\* row window, the secondary decode and its adjustment, the positions of
\* direct strings, the primary decode of TIMESTAMP with the buffering of the
\* secondary values it leaves over, the scatter and the advance
DataBatchSecondary ==
    /\ phase = "data_loop"
    /\ top.cur_row < top.end_row
    /\ chunk.type_kind \in StringKinds \cup {"TIMESTAMP"}
    /\ \E w \in {DataWindow} :
       \E decoded \in {w.max_vals > 0} :
       \E direct \in {chunk.type_kind \in StringKinds /\ ~IS_DICTIONARY(chunk.encoding_kind)} :
       \E s \in {IF decoded
                 THEN data_secondary(chunk.type_kind, chunk.encoding_kind, bs, vals,
                                     w.max_vals, top.buffered_pos, top.buffered_count)
                 ELSE [bs |-> bs, num |-> 0, vals |-> NoVals]} :
       \E v0 \in {Over(s.vals, vals)} :
       \E v1 \in {IF decoded /\ direct
                  THEN Over(string_positions(v0, s.num), v0) ELSE v0} :
       \E a1 \in {data_adjusted(w.row_ofs_plus1,
                                [max_vals |-> w.max_vals, nrows |-> w.nrows], s.num)} :
       \E p \in {IF decoded /\ chunk.type_kind = "TIMESTAMP"
                 THEN integer_rle(chunk.encoding_kind, s.bs, s.num, "i32")
                 ELSE [bs |-> s.bs, vals |-> NoVals, num |-> s.num]} :
       \E v \in {Over(ShiftTo(p.vals, NTHREADS), v1)} :
       \E a \in {data_adjusted(w.row_ofs_plus1, a1, p.num)} :
       \E uninitialized \in (IF direct THEN UninitializedWords ELSE {{}}) :
       LET buffer == decoded /\ chunk.type_kind = "TIMESTAMP"
           row(t) == top.cur_row + ofs_at(w.row_ofs_plus1, t) - 1 - inp.first_row
           lanes == {t \in 0..(a.max_vals - 1) :
                       /\ decoded
                       /\ ofs_at(w.row_ofs_plus1, t) # 0
                       /\ row(t) >= 0 /\ row(t) < inp.max_num_rows}
           value(t) == IF chunk.type_kind = "TIMESTAMP" THEN timestamp_value(v, t)
                       ELSE string_desc(chunk, v, t, uninitialized)
           stored == [i \in {row(t) : t \in lanes} |->
                        value(CHOOSE t \in lanes : row(t) = i)]
           break == a.max_vals = 0 /\ a.nrows = 0
       IN  /\ bs' = p.bs
           /\ vals' = v
           /\ gmem' = [gmem EXCEPT !.column_data = Over(stored, @)]
           /\ chunk' = [chunk EXCEPT
                          !.skip_count = @ - Min(@, a.max_vals),
                          !.dictionary_start =
                              IF direct /\ a.max_vals > 0
                              THEN BVAdd(@, BVTrunc(At(v, NTHREADS + a.max_vals - 1), 32), 32)
                              ELSE @]
           /\ top' = [top EXCEPT
                        !.cur_row = @ + a.nrows, !.nrows = a.nrows,
                        !.max_vals = a.max_vals, !.row_ofs_plus1 = w.row_ofs_plus1,
                        !.buffered_pos =
                            IF buffer /\ data_adjust(a1.max_vals, p.num) THEN p.num ELSE @,
                        !.buffered_count =
                            IF ~buffer THEN @
                            ELSE IF data_adjust(a1.max_vals, p.num)
                            THEN Max(@, a1.max_vals) - p.num ELSE 0]
           /\ phase' = IF break \/ ~(top.cur_row + a.nrows < top.end_row)
                       THEN "done" ELSE "data_loop"
    /\ UNCHANGED <<inp, bs2, out>>

(* ---- SpecSecondary: one chunk of a string kind or of TIMESTAMP ---- *)

\* a chunk with a DATA stream of the given bytes and a LENGTH / SECONDARY
\* stream of the given runs; primary are the values the DATA stream was
\* written from (the dictionary indices, the seconds)
SecondaryChunk(kind, enc, num_rows, bytes, primary, runs2, dict_len) ==
    [type_kind |-> kind, encoding_kind |-> enc, num_rows |-> num_rows,
     bytes |-> bytes, primary |-> primary, bytes2 |-> StreamBytes(runs2),
     secondary |-> StreamValues(runs2), dict_len |-> dict_len]

\* direct strings (rows 00, 00, 02 of a BINARY column; rows "ab", "", "cde",
\* "f"), dictionary strings with indices inside the dictionary and past it,
\* and timestamps
SecondaryMenu ==
    LET u(n) == BVFromNat(n)
        i(n) == BVFromInt(n, 32)
        idx == <<V2Direct("u32", 3, <<u(0), u(2), u(1), u(1), u(0)>>)>>
        bad == <<V2Direct("u32", 3, <<u(1), u(5), u(3), u(0)>>)>>
        idx1 == <<V1Lit("u32", <<u(2), u(0)>>), V1Run("u32", 3, 1, u(1))>>
        secs == <<V2Direct("i32", 7, <<i(5), i(-3), i(100), i(7)>>)>>
        secs1 == <<V1Lit("i32", <<i(5), i(-3)>>), V1Lit("i32", <<i(-20), i(7)>>)>>
    IN  { SecondaryChunk("BINARY", "DIRECT", 3, <<0, 0, 2>>, <<>>,
                         <<V1Run("u32", 3, 0, u(1))>>, 0),
          SecondaryChunk("STRING", "DIRECT_V2", 4, <<97, 98, 99, 100, 101, 102>>, <<>>,
                         <<V2Direct("u32", 3, <<u(2), u(0), u(3), u(1)>>)>>, 0),
          SecondaryChunk("STRING", "DICTIONARY_V2", 5, StreamBytes(idx), StreamValues(idx),
                         <<V2Direct("u32", 3, <<u(1), u(2), u(0)>>)>>, 3),
          SecondaryChunk("VARCHAR", "DICTIONARY_V2", 4, StreamBytes(bad), StreamValues(bad),
                         <<V2Direct("u32", 3, <<u(1), u(2), u(0)>>)>>, 3),
          SecondaryChunk("STRING", "DICTIONARY", 5, StreamBytes(idx1), StreamValues(idx1),
                         <<V1Lit("u32", <<u(4), u(0), u(6)>>)>>, 3),
          SecondaryChunk("TIMESTAMP", "DIRECT_V2", 4, StreamBytes(secs), StreamValues(secs),
                         <<V2Direct("u32", 15, <<u(640), u(129), u(0), u(1287)>>)>>, 0),
          SecondaryChunk("TIMESTAMP", "DIRECT", 4, StreamBytes(secs1), StreamValues(secs1),
                         <<V1Lit("u32", <<u(1), u(2)>>), V1Lit("u32", <<u(3), u(4)>>)>>, 0) }

InitSecondary ==
    /\ phase = "dict_start"
    /\ \E c \in SecondaryMenu, pl \in Placements, start_row \in StartRows,
          max_num_rows \in {2, 64}, junk \in Junk :
          /\ inp = [first_row |-> start_row, max_num_rows |-> max_num_rows,
                    junk |-> junk, primary |-> c.primary, secondary |-> c.secondary]
          /\ gmem = [chunks |-> [type_kind |-> c.type_kind,
                                 encoding_kind |-> c.encoding_kind,
                                 start_row |-> start_row, num_rows |-> c.num_rows,
                                 skip_count |-> 0, null_count |-> 0,
                                 dictionary_start |->
                                     IF c.dict_len > 0 THEN 8 * pl.ofs ELSE 0,
                                 dict_len |-> c.dict_len,
                                 data2 |-> [bytes |-> c.bytes2, ofs |-> pl.ofs, pad |-> pl.pad],
                                 valid_map_base |-> "valid_map",
                                 data |-> [bytes |-> c.bytes, ofs |-> pl.ofs, pad |-> pl.pad],
                                 present |-> NoStream],
                     global_dictionary |-> [i \in {} |-> {}],
                     valid_map |-> [w \in {} |-> {}],
                     column_data |-> [r \in {} |-> {}]]
    /\ chunk = Nothing
    /\ top = Nothing
    /\ bs = NoBs
    /\ bs2 = NoBs
    /\ vals = NoVals
    /\ out = [i \in {} |-> 0]

\* gpuDecodeNullsAndStringDictionaries runs a dictionary block and a null
\* block for every chunk; here the null block follows the dictionary block
NullBlock ==
    /\ phase = "dict_done"
    /\ phase' = "null_start"
    /\ UNCHANGED <<inp, bs, bs2, vals, out, chunk, top, gmem>>

NextSecondary ==
    \/ DictStart \/ DictBatch \/ DictFinish \/ NullBlock
    \/ NullStart \/ NullBatch \/ NullFinish
    \/ DataStart \/ DataBatchSecondary

SpecSecondary == InitSecondary /\ [][NextSecondary]_vars


(* ---- the two streams of a direct string chunk and of a TIMESTAMP chunk ---- *)

SecondaryDirect ==
    /\ phase \in {"data_loop", "done"}
    /\ chunk.type_kind \in StringKinds \cup {"TIMESTAMP"}
    /\ ~IS_DICTIONARY(chunk.encoding_kind)

\* a batch of the chunk has decoded
BatchDecoded == SecondaryDirect /\ top.max_vals > 0

\* C23: for a direct-encoded string chunk and for a TIMESTAMP chunk the
\* secondary values (the lengths, the nanoseconds) are decoded from the
\* LENGTH / SECONDARY stream bs2 and the primary values from the DATA stream
\* bs: once a batch has decoded, bs2 has been consumed, and the lengths of a
\* string chunk have consumed nothing of bs
C23_SecondaryFromOwnStream ==
    BatchDecoded =>
        /\ bs2.pos > bs2.strm.ofs
        /\ chunk.type_kind \in StringKinds => bs.pos = bs.strm.ofs

\* what the kernel does: the secondary decode takes &s->bs, so bs2 stays
\* where bytestream_init put it; the DATA stream is what a length decode
\* consumes (SecondaryReadsDataSeen)
SecondaryReadsData == BatchDecoded => bs2.pos = bs2.strm.ofs

SecondaryReadsDataSeen ==
    /\ BatchDecoded
    /\ chunk.type_kind = "BINARY"
    /\ phase = "done"
    /\ bs.pos > bs.strm.ofs

(* ---- string descriptors ---- *)

RECURSIVE LengthsBefore(_, _)
\* the sum of the lengths in the slots 0..t-1 of v, on 32 bits
LengthsBefore(v, t) ==
    IF t = 0 THEN {} ELSE BVAdd(LengthsBefore(v, t - 1), BVTrunc(v[t - 1], 32), 32)

\* the output row of lane t in a batch that started at cur_row
BatchRow(cur_row, w, t) == cur_row + w.row_ofs_plus1[t] - 1 - inp.first_row

\* the lanes of a batch that store a row
BatchLanes(cur_row, w) ==
    {t \in 0..(w.max_vals - 1) :
        /\ t \in DOMAIN w.row_ofs_plus1
        /\ w.row_ofs_plus1[t] # 0
        /\ BatchRow(cur_row, w, t) >= 0
        /\ BatchRow(cur_row, w, t) < inp.max_num_rows}

\* slot t of a direct batch by its decoded lengths v: the byte offset is the
\* bytes of the earlier batches plus the lengths of the slots before t
SlotOffset(start, v, t) == BVAdd(start, LengthsBefore(v, t), 32)
SlotInRange(start, v, t) ==
    ~BVGt(BVAdd(SlotOffset(start, v, t), BVTrunc(v[t], 32), 32),
          BVFromNat(Len(chunk.data.bytes)))

DirectStringStep ==
    /\ phase = "data_loop"
    /\ chunk.type_kind \in StringKinds
    /\ ~IS_DICTIONARY(chunk.encoding_kind)

DictionaryStringStep ==
    /\ phase = "data_loop"
    /\ chunk.type_kind \in StringKinds
    /\ IS_DICTIONARY(chunk.encoding_kind)

\* C29: slot t of a batch of a direct-encoded string chunk gets the pointer
\* DATA base + bytes consumed by the earlier batches + the lengths of the
\* slots 0..t-1 and the count of slot t, and the batch adds the total of its
\* lengths to the bytes consumed
C29_DirectStringSlots ==
    [][DirectStringStep =>
        /\ \A t \in BatchLanes(top.cur_row, top') :
              SlotInRange(chunk.dictionary_start, vals', t) =>
                 gmem'.column_data[BatchRow(top.cur_row, top', t)] =
                    [ptr |-> [base |-> "CI_DATA",
                              ofs |-> SlotOffset(chunk.dictionary_start, vals', t)],
                     count |-> BVTrunc(vals'[t], 32)]
        /\ chunk'.dictionary_start =
              SlotOffset(chunk.dictionary_start, vals', top'.max_vals)]_vars

\* what holds: the batch adds the total of its decoded lengths, and a stored
\* descriptor is the sentinel or has the count of its slot
DirectStringAdvance ==
    [][DirectStringStep =>
        /\ \A t \in BatchLanes(top.cur_row, top') :
              LET d == gmem'.column_data[BatchRow(top.cur_row, top', t)]
              IN  d = Sentinel \/ (d.ptr.base = "CI_DATA" /\ d.count = BVTrunc(vals'[t], 32))
        /\ chunk'.dictionary_start =
              SlotOffset(chunk.dictionary_start, vals', top'.max_vals)]_vars

DirectStringStored ==
    /\ phase = "done"
    /\ chunk.type_kind = "BINARY"
    /\ chunk.dictionary_start = {1, 2}
    /\ 0 \in DOMAIN gmem.column_data

\* C24: a dictionary index >= dict_len, and a direct string whose byte offset
\* plus length exceeds the length of the DATA stream, are stored with count 0
\* and the sentinel pointer; a dictionary index i < dict_len is stored as
\* (DICTIONARY base + pos, len) of the entry dictionary_start + i
C24_OutOfRangeStrings ==
    [][/\ DictionaryStringStep =>
            \A t \in BatchLanes(top.cur_row, top') :
               LET i == BVTrunc(vals'[t], 32)
                   e == gmem.global_dictionary[BVToNat(chunk.dictionary_start) + BVToNat(i)]
               IN  gmem'.column_data[BatchRow(top.cur_row, top', t)] =
                      IF BVGt(BVFromNat(chunk.dict_len), i)
                      THEN [ptr |-> [base |-> "CI_DICTIONARY", ofs |-> e.x], count |-> e.y]
                      ELSE Sentinel
       /\ DirectStringStep =>
            \A t \in BatchLanes(top.cur_row, top') :
               ~SlotInRange(chunk.dictionary_start, vals', t) =>
                  gmem'.column_data[BatchRow(top.cur_row, top', t)] = Sentinel]_vars

\* the dictionary half of C24 alone
DictionaryStrings ==
    [][DictionaryStringStep =>
            \A t \in BatchLanes(top.cur_row, top') :
               LET i == BVTrunc(vals'[t], 32)
                   e == gmem.global_dictionary[BVToNat(chunk.dictionary_start) + BVToNat(i)]
               IN  gmem'.column_data[BatchRow(top.cur_row, top', t)] =
                      IF BVGt(BVFromNat(chunk.dict_len), i)
                      THEN [ptr |-> [base |-> "CI_DICTIONARY", ofs |-> e.x], count |-> e.y]
                      ELSE Sentinel]_vars

\* a dictionary chunk has stored a sentinel for an index past dict_len and an
\* entry for an index within it
DictionaryStringsStored ==
    /\ phase = "done"
    /\ chunk.type_kind = "VARCHAR"
    /\ \E r, q \in DOMAIN gmem.column_data :
          /\ gmem.column_data[r] = Sentinel
          /\ gmem.column_data[q] # Sentinel

(* ---- TIMESTAMP rows ---- *)

\* C25: the i-th non-null row of a TIMESTAMP chunk combines the i-th value of
\* the seconds stream with the i-th value of the nanosecond stream, also when
\* the two decoders return different counts
C25_TimestampPairs ==
    (phase = "done" /\ chunk.type_kind = "TIMESTAMP") =>
        \A r \in DOMAIN gmem.column_data :
           LET i == r + inp.first_row - chunk.start_row + 1
           IN  gmem.column_data[r] =
                  timestamp_ns(BVTrunc(inp.primary[i], 32), BVTrunc(inp.secondary[i], 32))

\* what the kernel stores: both words of a row come out of vals as the two
\* decodes of the DATA stream left them
TimestampFromVals ==
    [][(phase = "data_loop" /\ chunk.type_kind = "TIMESTAMP") =>
          \A t \in BatchLanes(top.cur_row, top') :
             gmem'.column_data[BatchRow(top.cur_row, top', t)] =
                timestamp_ns(BVTrunc(At(vals', NTHREADS + t), 32), BVTrunc(At(vals', t), 32))]_vars

TimestampStored ==
    /\ phase = "done"
    /\ chunk.type_kind = "TIMESTAMP"
    /\ DOMAIN gmem.column_data # {}


(* ---- SpecTimestamp: the value stored for one TIMESTAMP row ---- *)

\* seconds as the signed 32-bit primary decode leaves them
TimestampSeconds == {0, 1, 5, 100, 1415926535, 2147483647, -1, -3, -86400, -2147483647}

\* nanosecond words: a count of at most 25 bits above a 7-bit field whose low
\* three bits select the scale; every count times its scale is below 10^9
TimestampCounts == {0, 1, 5, 99, 123}
TimestampFields == {0, 8, 127}

TimestampNanos ==
    {BVOr(BVShl(BVFromNat(n), 7, 32), BVFromNat(f + k)) :
        n \in TimestampCounts, f \in {g - (g % 8) : g \in TimestampFields}, k \in 0..7}

InitTimestamp ==
    /\ phase = "timestamp"
    /\ \E seconds \in TimestampSeconds, nanos \in TimestampNanos :
          /\ inp = [seconds |-> seconds, nanos |-> nanos, junk |-> {}]
          /\ vals = (0 :> nanos) @@ (NTHREADS :> BVFromInt(seconds, 32))
    /\ out = [i \in {} |-> 0]
    /\ bs = NoBs
    /\ bs2 = NoBs
    /\ chunk = Nothing
    /\ top = Nothing
    /\ gmem = [column_data |-> [r \in {} |-> {}]]

\* lane 0 of the TIMESTAMP case of the scatter
TimestampStore ==
    /\ phase = "timestamp"
    /\ phase' = "timestamp_done"
    /\ gmem' = [gmem EXCEPT !.column_data = (0 :> timestamp_value(vals, 0))]
    /\ UNCHANGED <<inp, bs, bs2, vals, out, chunk, top>>

SpecTimestamp == InitTimestamp /\ [][TimestampStore]_vars

\* a signed 32-bit word widened to 64 bits with its sign
SignExtend64(a) == IF BVNegative(a, 32) THEN BVTrunc(a, 32) \cup (32..63) ELSE BVTrunc(a, 32)

\* 10^e for the exponents the scale table can hold
IsPowerOfTen(n) == \E e \in 0..9 : n = 10^e

\* C30: the stored TIMESTAMP value is seconds * 1000000000 +
\* (nanos >> 7) * scale[nanos & 7] as a signed 64-bit count of nanoseconds,
\* so that negative seconds give a negative value, and scale is a table of
\* distinct powers of ten
C30_TimestampNanoseconds ==
    /\ phase = "timestamp_done" =>
          LET seconds == SignExtend64(BVFromInt(inp.seconds, 32))
              scaled == BVMul(BVShr(inp.nanos, 7),
                              BVFromNat(kTimestampNanoScale[BVToNat(BVTrunc(inp.nanos, 3)) + 1]),
                              64)
              value == gmem.column_data[0]
          IN  /\ value = BVAdd(BVMul(seconds, BVFromNat(1000000000), 64), scaled, 64)
              /\ inp.seconds < 0 => BVNegative(value, 64)
    /\ \A j \in DOMAIN kTimestampNanoScale : IsPowerOfTen(kTimestampNanoScale[j])
    /\ \A j, k \in DOMAIN kTimestampNanoScale :
          j # k => kTimestampNanoScale[j] # kTimestampNanoScale[k]

\* what the kernel stores when seconds >= 0, and the table as powers of ten
TimestampNonNegativeSeconds ==
    /\ (phase = "timestamp_done" /\ inp.seconds >= 0) =>
          LET scaled == BVMul(BVShr(inp.nanos, 7),
                              BVFromNat(kTimestampNanoScale[BVToNat(BVTrunc(inp.nanos, 3)) + 1]),
                              64)
          IN  gmem.column_data[0] =
                 BVAdd(BVMul(BVFromNat(inp.seconds), BVFromNat(1000000000), 64), scaled, 64)
    /\ \A j \in DOMAIN kTimestampNanoScale : IsPowerOfTen(kTimestampNanoScale[j])

\* a negative seconds word is widened without its sign: the stored value is
\* (seconds + 2^32) * 1000000000 + nanos, which is not negative
TimestampNegativeSeconds ==
    (phase = "timestamp_done" /\ inp.seconds < 0) =>
        /\ ~BVNegative(gmem.column_data[0], 64)
        /\ gmem.column_data[0] =
              BVAdd(BVMul(BVFromInt(inp.seconds, 32), BVFromNat(1000000000), 64),
                    BVMul(BVShr(inp.nanos, 7),
                          BVFromNat(kTimestampNanoScale[BVToNat(BVTrunc(inp.nanos, 3)) + 1]),
                          64), 64)

\* the entries for the codes 2 and 3 of the scale table are both 1000
TimestampScaleRepeats == kTimestampNanoScale[3] = kTimestampNanoScale[4]

TimestampNegativeStored ==
    /\ phase = "timestamp_done"
    /\ inp.seconds = -3
    /\ BVTrunc(inp.nanos, 3) = {0, 1}


(* ---- SpecBoolean: BOOLEAN chunks through null decoding and data decoding ---- *)

\* BOOLEAN chunks of 5 and 20 rows, one of 1030 rows that takes two batches
\* of the data loop, and one with a PRESENT stream (6 values in 8 rows)
BooleanMenu ==
    { [chunk |-> BoolChunk(<<ByteLit(<<168>>)>>, 5), present |-> <<>>],
      [chunk |-> BoolChunk(<<ByteRun(3, 165)>>, 20), present |-> <<>>],
      [chunk |-> BoolChunk(<<ByteRun(128, 165), ByteLit(<<90>>)>>, 1030), present |-> <<>>],
      PresentChunk(BoolChunk(<<ByteLit(<<172>>)>>, 6), <<ByteLit(<<189>>)>>, 8) }

BooleanMaxNumRows == {2, 2000}

InitBoolean ==
    /\ phase = "null_start"
    /\ \E p \in BooleanMenu, start_row \in StartRows,
          first_row \in FirstRows, max_num_rows \in BooleanMaxNumRows, junk \in Junk :
          \* the chunk of 1030 rows is taken at start_row 0 only
          /\ p.chunk.num_rows > NTHREADS => (start_row = 0 /\ junk = {})
          /\ inp = [first_row |-> first_row, max_num_rows |-> max_num_rows,
                    junk |-> junk, values |-> p.chunk.values, kinds |-> p.chunk.kinds,
                    present |-> p.present]
          /\ gmem = [chunks |-> [type_kind |-> p.chunk.type_kind,
                                 encoding_kind |-> p.chunk.encoding_kind,
                                 start_row |-> start_row, num_rows |-> p.chunk.num_rows,
                                 skip_count |-> 0, null_count |-> 0,
                                 dictionary_start |-> 0, dict_len |-> 0,
                                 data2 |-> NoStream,
                                 valid_map_base |-> "valid_map",
                                 data |-> [bytes |-> p.chunk.bytes, ofs |-> 0, pad |-> 0],
                                 present |-> [bytes |-> p.chunk.present, ofs |-> 0,
                                              pad |-> 0]],
                     valid_map |-> [w \in {} |-> {}],
                     column_data |-> [r \in {} |-> {}]]
    /\ chunk = Nothing
    /\ top = Nothing
    /\ bs = NoBs
    /\ bs2 = NoBs
    /\ vals = NoVals
    /\ out = Nothing

SpecBoolean == InitBoolean /\ [][NextChunk]_vars

\* C27: in a BOOLEAN chunk the k-th non-null row receives bit k of the
\* byte-RLE DATA stream, most significant bit first, in every batch: no bit
\* of a partly used byte is dropped where one batch ends and the next begins
C27_BooleanBits ==
    (phase = "done" /\ PresentReadsSame)
        => \A i \in 0..(inp.max_num_rows - 1) :
              (InWindow(i) /\ StoredBit(RowOfBit(i)) = 1)
                 => /\ i \in DOMAIN gmem.column_data
                    /\ gmem.column_data[i] = inp.values[ValuesBefore(RowOfBit(i)) + 1]

\* The same for chunks without PRESENT stream and windows that reach the end
\* of the chunk, so that no run is cut: this covers the chunk of 1030 rows,
\* whose second batch starts at bit 1024
BooleanBitsToEnd ==
    (/\ NoPresent
     /\ inp.first_row + inp.max_num_rows >= gmem.chunks.start_row + gmem.chunks.num_rows)
        => C27_BooleanBits

\* the rows 1023, 1024 and 1029 of the chunk of 1030 rows are stored
BooleanTwoBatches ==
    /\ phase = "done"
    /\ gmem.chunks.num_rows = 1030
    /\ inp.first_row = gmem.chunks.start_row
    /\ top.cur_row = top.end_row /\ top.nrows = 6
    /\ gmem.column_data[1023] = {0}
    /\ gmem.column_data[1024] = {}
    /\ gmem.column_data[1029] = {}


----------------------------------------------------------------------------
(* Specification SpecValidWords: two blocks of the null phase, for two      *)
(* chunks of one column whose row ranges are adjacent, store their validity *)
(* bits to the column's bitmap; their memory operations interleave          *)

\* a variant of partial_word that writes the bits with one plain store
partial_word_stored(w, mask, bits) == <<[op |-> "store", w |-> w, x |-> bits]>>

\* atomicAnd(valid, ~mask); atomicOr(valid, bits) on word w
partial_word(w, mask, bits) ==
    <<[op |-> "atomicAnd", w |-> w, x |-> BVNot(mask, 32)],
      [op |-> "atomicOr", w |-> w, x |-> bits]>>

\* the memory operations of one batch of the null loop in program order:
\* lane 0 on the word up to the next 32-bit boundary, then lane t on word
\* base + t, a plain store when the word is full
null_store_ops(v, row_in, nrows) ==
    LET first_row == inp.first_row
        max_num_rows == inp.max_num_rows
        dst_row == row_in - first_row
        dst_pos == Max(dst_row, 0)
        startbit0 == -Min(dst_row, 0)
        nbits0 == nrows - Min(startbit0, nrows)
        nbits1 == IF dst_pos + nbits0 > max_num_rows
                  THEN max_num_rows - Min(dst_pos, max_num_rows)
                  ELSE nbits0
        word0 == dst_pos \div 32
        bitpos == dst_pos % 32
        n == Min(32 - bitpos, nbits1)
        hmask == BVShl(LowMask(n), bitpos, 32)
        hbits == BVAnd(BVShl(rle8_read_u32(v, startbit0), bitpos, 32), hmask)
        head == bitpos # 0
        nbits == IF head THEN nbits1 - n ELSE nbits1
        startbit == IF head THEN startbit0 + n ELSE startbit0
        base == IF head THEN word0 + 1 ELSE word0
        lbits(t) == rle8_read_u32(v, startbit + t * 32)
        pmask(t) == LowMask(nbits - t * 32)
        lane(t) == IF t * 32 + 32 <= nbits
                   THEN <<[op |-> "store", w |-> base + t, x |-> lbits(t)]>>
                   ELSE IF t * 32 < nbits
                   THEN partial_word(base + t, pmask(t), BVAnd(lbits(t), pmask(t)))
                   ELSE <<>>
    IN  IF /\ row_in + nrows > first_row
           /\ row_in < first_row + max_num_rows
        THEN (IF head THEN partial_word(word0, hmask, hbits) ELSE <<>>)
             \o Flatten([k \in 1..((nbits + 31) \div 32) |-> lane(k - 1)])
        ELSE <<>>

\* the bitmap after one memory operation
valid_map_after(valid_map, o) ==
    [valid_map EXCEPT ![o.w] = IF o.op = "store" THEN o.x
                               ELSE IF o.op = "atomicAnd" THEN BVAnd(@, o.x)
                               ELSE BVOr(@, o.x)]

\* decoded PRESENT bytes of a block: nbytes bytes of a pattern
BlockBytes(nbytes, mul, add) == [i \in 0..(nbytes - 1) |-> BVFromNat((i * mul + add) % 256)]

ValidStartRows == {0, 7}
FirstBlockRows == {5, 37, 64}
SecondBlockRows == {3, 30, 70}
ValidFirstRows == {0, 5}
ValidMaxNumRows == {30, 300}
\* the words of the bitmap the two chunks can reach
ValidWords == 5

InitValidWords ==
    /\ phase = "valid_words"
    /\ \E start_row \in ValidStartRows, n1 \in FirstBlockRows, n2 \in SecondBlockRows,
          first_row \in ValidFirstRows, max_num_rows \in ValidMaxNumRows, junk \in Junk :
          /\ inp = [first_row |-> first_row, max_num_rows |-> max_num_rows, junk |-> junk,
                    blocks |-> <<[start_row |-> start_row, num_rows |-> n1,
                                  v |-> BlockBytes((n1 + 7) \div 8, 37, 90)],
                                 [start_row |-> start_row + n1, num_rows |-> n2,
                                  v |-> BlockBytes((n2 + 7) \div 8, 91, 17)]>>]
          /\ gmem = [valid_map |-> [w \in 0..(ValidWords - 1) |-> BVTrunc(junk, 32)]]
    /\ out = [b \in 1..2 |->
                null_store_ops(inp.blocks[b].v, inp.blocks[b].start_row,
                               inp.blocks[b].num_rows)]
    /\ chunk = Nothing
    /\ top = Nothing
    /\ bs = NoBs
    /\ bs2 = NoBs
    /\ vals = NoVals

\* block b performs its next memory operation
BlockStore(b) ==
    /\ phase = "valid_words"
    /\ out[b] # <<>>
    /\ gmem' = [gmem EXCEPT !.valid_map = valid_map_after(@, Head(out[b]))]
    /\ out' = [out EXCEPT ![b] = Tail(@)]
    /\ UNCHANGED <<phase, inp, bs, bs2, vals, chunk, top>>

NextValidWords == \E b \in 1..2 : BlockStore(b)

SpecValidWords == InitValidWords /\ [][NextValidWords]_vars

\* the output bits of the rows of block b that lie inside the row window
BlockBits(b) ==
    {i \in 0..(inp.max_num_rows - 1) :
        /\ i + inp.first_row >= inp.blocks[b].start_row
        /\ i + inp.first_row < inp.blocks[b].start_row + inp.blocks[b].num_rows}

\* the validity bit block b has decoded for output bit i
BlockBit(b, i) ==
    LET k == i + inp.first_row - inp.blocks[b].start_row
    IN  IF (k % 8) \in inp.blocks[b].v[k \div 8] THEN 1 ELSE 0

\* C22: when the blocks of two chunks whose row ranges meet inside one 32-bit
\* validity word run concurrently, then under every interleaving of their
\* atomicAnd / atomicOr operations the final words hold each chunk's bits in
\* that chunk's bit range; and every word written with a plain store lies
\* entirely inside the row range of the writing chunk inside the window
C22_SharedValidityWord ==
    phase = "valid_words" =>
        /\ (out[1] = <<>> /\ out[2] = <<>>) =>
              \A b \in 1..2 : \A i \in BlockBits(b) :
                 valid_bit(gmem.valid_map, i) = BlockBit(b, i)
        /\ \A b \in 1..2 : \A k \in 1..Len(out[b]) :
              out[b][k].op = "store" =>
                 \A j \in 0..31 : (32 * out[b][k].w + j) \in BlockBits(b)

\* both blocks are between the atomicAnd and the atomicOr on the same word
BothInsideSharedWord ==
    /\ phase = "valid_words"
    /\ out[1] # <<>> /\ out[2] # <<>>
    /\ Head(out[1]).op = "atomicOr" /\ Head(out[2]).op = "atomicOr"
    /\ Head(out[1]).w = Head(out[2]).w

\* the two blocks are done, they met inside a word, and the first block also
\* stored a whole word
C22_Witness ==
    /\ phase = "valid_words"
    /\ out[1] = <<>> /\ out[2] = <<>>
    /\ \E i \in BlockBits(1), j \in BlockBits(2) : i \div 32 = j \div 32
    /\ \E i \in BlockBits(1) : \A j \in 0..31 : (32 * (i \div 32) + j) \in BlockBits(1)
    /\ \E i, j \in BlockBits(2) : BlockBit(2, i) = 0 /\ BlockBit(2, j) = 1

\* run alone, the operations of a batch leave the bitmap null_store gives
ValidWordOpsAsStored ==
    phase = "valid_words" =>
        \A b \in 1..2 :
           LET RECURSIVE run(_, _)
               run(m, ops) == IF ops = <<>> THEN m
                              ELSE run(valid_map_after(m, Head(ops)), Tail(ops))
               blk == inp.blocks[b]
               m0 == [w \in 0..(ValidWords - 1) |-> BVTrunc(inp.junk, 32)]
               ops == null_store_ops(blk.v, blk.start_row, blk.num_rows)
           IN  ops # <<>> =>
                  \A w \in 0..(ValidWords - 1) :
                     run(m0, ops)[w] =
                        BVTrunc(At(null_store(m0, blk.v, blk.start_row, blk.num_rows).valid_map,
                                   w), 32)


----------------------------------------------------------------------------
(* Specification SpecLanes: the lanes of one thread block run the per-chunk *)
(* loop of gpuDecodeOrcColumnData from barrier to barrier                   *)

\* lanes of the block that are followed: lane 0 and two others
GroupLanes == 3
Lanes == 0..(GroupLanes - 1)

\* the __syncthreads() of the loop: at its top (1134), after lane 0 has reset
\* the window (1140), at the end of the row-window loop (1205), at the end of
\* "Decode data streams" (1440), before the advance (1442) and after it (1455)
Barriers == {"b1134", "b1140", "b1205", "b1440", "b1442", "b1455"}

\* where a lane continues once the barrier has let the block through
After(b) ==
    IF b = "b1134" THEN "a1134" ELSE IF b = "b1140" THEN "a1140"
    ELSE IF b = "b1205" THEN "a1205" ELSE IF b = "b1440" THEN "a1440"
    ELSE IF b = "b1442" THEN "a1442" ELSE "loop"

\* chunks for the lanes: one run, two runs (a short decode), a BOOLEAN run, a
\* PRESENT stream with nulls, only nulls, and a DATA stream that ends three
\* rows before the chunk does
LaneMenu ==
    LET i(n) == BVFromInt(n, 32)
        tens == <<i(10), i(20), i(30), i(40), i(50)>>
    IN  { RunChunk("INT", "DIRECT_V2", <<V2Direct("i32", 7, tens)>>),
          RunChunk("INT", "DIRECT", <<V1Lit("i32", <<i(-1), i(7)>>), V1Run("i32", 3, -1, i(2))>>),
          BoolChunk(<<ByteRun(3, 165)>>, 20),
          WithPresent(RunChunk("INT", "DIRECT_V2", <<V2Direct("i32", 7, tens)>>),
                      <<ByteLit(<<182>>)>>, 8),
          WithPresent(RunChunk("INT", "DIRECT_V2", <<>>), <<ByteLit(<<0>>)>>, 8),
          [RunChunk("INT", "DIRECT_V2", <<V2Direct("i32", 7, tens)>>) EXCEPT !.num_rows = 8] }

LaneFirstRows == {0, 2}
LaneMaxNumRows == {2, 4, 64}

InitLanes ==
    /\ phase = "null_start"
    /\ \E c \in LaneMenu, first_row \in LaneFirstRows, max_num_rows \in LaneMaxNumRows,
          junk \in Junk :
          /\ inp = [first_row |-> first_row, max_num_rows |-> max_num_rows,
                    junk |-> junk, values |-> c.values, kinds |-> c.kinds]
          /\ gmem = [chunks |-> [type_kind |-> c.type_kind,
                                 encoding_kind |-> c.encoding_kind,
                                 start_row |-> 0, num_rows |-> c.num_rows,
                                 skip_count |-> 0, null_count |-> 0,
                                 dictionary_start |-> 0, dict_len |-> 0,
                                 data2 |-> NoStream,
                                 valid_map_base |-> "valid_map",
                                 data |-> [bytes |-> c.bytes, ofs |-> 0, pad |-> 0],
                                 present |-> [bytes |-> c.present, ofs |-> 0, pad |-> 0]],
                     valid_map |-> [w \in {} |-> {}],
                     column_data |-> [r \in {} |-> {}]]
    /\ chunk = Nothing
    /\ top = Nothing
    /\ bs = NoBs
    /\ bs2 = NoBs
    /\ vals = NoVals
    /\ out = [t \in Lanes |-> "loop"]

\* while (s->top.data.cur_row < s->top.data.end_row), line 1132
LaneLoopTest ==
    /\ phase = "data_loop"
    /\ \E t \in Lanes :
          /\ out[t] = "loop"
          /\ out' = [out EXCEPT ![t] = IF top.cur_row < top.end_row THEN "b1134" ELSE "exit"]
    /\ UNCHANGED <<phase, inp, bs, bs2, vals, chunk, top, gmem>>

\* what the block has left in shared memory when it is through the
\* row-window loop (lines 1146-1206)
window_done ==
    CHOOSE r \in {[top EXCEPT !.nrows = w.nrows, !.max_vals = w.max_vals,
                              !.row_ofs_plus1 = w.row_ofs_plus1] : w \in {DataWindow}} : TRUE

\* what the block has left in shared memory and in the output when it is
\* through "Decode data streams" (lines 1208-1440): the decode, the
\* adjustment of max_vals and nrows, the values stored
decode_done ==
    CHOOSE r \in
       {LET adjust == data_adjust(top.max_vals, d.num)
            max_vals == IF adjust THEN d.num ELSE top.max_vals
            nrows == IF adjust THEN ofs_at(top.row_ofs_plus1, d.num - 1) ELSE top.nrows
            v == Over(d.vals, vals)
            row(u) == top.cur_row + ofs_at(top.row_ofs_plus1, u) - 1 - inp.first_row
            lanes == {u \in 0..(max_vals - 1) :
                        /\ ofs_at(top.row_ofs_plus1, u) # 0
                        /\ row(u) >= 0 /\ row(u) < inp.max_num_rows}
            stored == [j \in {row(u) : u \in lanes} |->
                         scatter_value(chunk.type_kind, v, CHOOSE u \in lanes : row(u) = j)]
        IN  [bs |-> d.bs, vals |-> v,
             gmem |-> [gmem EXCEPT !.column_data = Over(stored, @)],
             top |-> [top EXCEPT !.max_vals = max_vals, !.nrows = nrows]] :
          d \in {data_decode(chunk.type_kind, chunk.encoding_kind, bs,
                             top.max_vals, top.max_vals)}} : TRUE

\* a __syncthreads() lets the block through once every lane has reached it;
\* what the lanes wrote together in the section it ends is in shared memory
\* from then on
LaneBarrier ==
    /\ phase = "data_loop"
    /\ \E b \in Barriers :
          /\ \A t \in Lanes : out[t] = b
          /\ out' = [t \in Lanes |-> After(b)]
          /\ IF b = "b1205"
             THEN /\ top' = window_done
                  /\ UNCHANGED <<bs, vals, gmem>>
             ELSE IF b = "b1440"
             THEN \E r \in {decode_done} :
                     /\ bs' = r.bs
                     /\ vals' = r.vals
                     /\ gmem' = r.gmem
                     /\ top' = r.top
             ELSE UNCHANGED <<bs, vals, gmem, top>>
    /\ UNCHANGED <<phase, inp, bs2, chunk>>

\* lines 1135-1139: lane 0 resets nrows and max_vals
LaneReset ==
    /\ phase = "data_loop"
    /\ \E t \in Lanes :
          /\ out[t] = "a1134"
          /\ out' = [out EXCEPT ![t] = "b1140"]
          /\ top' = IF t = 0
                    THEN [top EXCEPT !.nrows = 0, !.max_vals = Min(chunk.skip_count, NTHREADS)]
                    ELSE top
    /\ UNCHANGED <<phase, inp, bs, bs2, vals, chunk, gmem>>

\* line 1146: a lane enters the row-window loop on the shared max_vals and
\* nrows and comes to the __syncthreads() that ends it, or skips the loop
LaneWindow ==
    /\ phase = "data_loop"
    /\ \E t \in Lanes :
          /\ out[t] = "a1140"
          /\ out' = [out EXCEPT ![t] =
                        IF /\ top.max_vals < NTHREADS
                           /\ top.cur_row + top.nrows < top.end_row
                           /\ top.nrows < 65024
                        THEN "b1205" ELSE "a1205"]
    /\ UNCHANGED <<phase, inp, bs, bs2, vals, chunk, top, gmem>>

\* line 1208: if (s->top.data.max_vals > 0) a lane goes through the decode
\* block to the __syncthreads() that ends it (line 1440), else to the one
\* after the block (line 1442)
LaneDecode ==
    /\ phase = "data_loop"
    /\ \E t \in Lanes :
          /\ out[t] = "a1205"
          /\ out' = [out EXCEPT ![t] = IF top.max_vals > 0 THEN "b1440" ELSE "b1442"]
    /\ UNCHANGED <<phase, inp, bs, bs2, vals, chunk, top, gmem>>

\* line 1441: from the end of the decode block to the next __syncthreads()
LaneDecoded ==
    /\ phase = "data_loop"
    /\ \E t \in Lanes :
          /\ out[t] = "a1440"
          /\ out' = [out EXCEPT ![t] = "b1442"]
    /\ UNCHANGED <<phase, inp, bs, bs2, vals, chunk, top, gmem>>

\* lines 1443-1454: lane 0 advances skip_count and cur_row and takes the
\* break when max_vals and nrows are both 0; the other lanes go on to the
\* __syncthreads() of line 1455
LaneAdvance ==
    /\ phase = "data_loop"
    /\ \E t \in Lanes :
          /\ out[t] = "a1442"
          /\ IF t = 0
             THEN /\ chunk' = [chunk EXCEPT !.skip_count = @ - Min(@, top.max_vals)]
                  /\ top' = [top EXCEPT !.cur_row = @ + top.nrows]
                  /\ out' = [out EXCEPT ![t] = IF top.max_vals = 0 /\ top.nrows = 0
                                               THEN "exit" ELSE "b1455"]
             ELSE /\ out' = [out EXCEPT ![t] = "b1455"]
                  /\ UNCHANGED <<chunk, top>>
    /\ UNCHANGED <<phase, inp, bs, bs2, vals, gmem>>

NextLanes ==
    \/ NullStart \/ NullBatch \/ NullFinish \/ DataStart
    \/ LaneLoopTest \/ LaneBarrier \/ LaneReset \/ LaneWindow \/ LaneDecode
    \/ LaneDecoded \/ LaneAdvance

SpecLanes == InitLanes /\ [][NextLanes]_vars

AllAtBarrierNoValues ==
    /\ phase = "data_loop"
    /\ \A t \in Lanes : out[t] = "b1442"
    /\ top.max_vals = 0

\* the condition of the break never holds when lane 0 tests it: a window
\* without values has at least one row, and an adjustment never leaves
\* max_vals at 0
TerminalConditionNeverHolds ==
    (phase = "data_loop" /\ out[0] = "a1442") => ~(top.max_vals = 0 /\ top.nrows = 0)

----------------------------------------------------------------------------
(* Specification SpecRowWindow: the data kernel on chunks whose row window   *)
(* takes many passes of the row-window loop                                  *)

\* validity bitmaps as the null kernel leaves them for chunks at row 0 with
\* first_row = 0: 66000 rows without a valid one; 66000 rows with valid rows
\* in the first byte and in rows 65016..65023; 2048 rows of which rows
\* 0..511 and 1024..2047 are valid; 1500 rows of which rows 0..511 and
\* 1472..1499 are valid
LongMaps ==
    { [num_rows |-> 66000, valid |-> 0, valid_map |-> [w \in 0..2062 |-> {}]],
      [num_rows |-> 66000, valid |-> 14,
       valid_map |-> [w \in 0..2062 |-> IF w = 0 THEN {0, 2, 3, 4, 5, 7}
                                        ELSE IF w = 2031 THEN 24..31 ELSE {}]],
      [num_rows |-> 2048, valid |-> 1536,
       valid_map |-> [w \in 0..63 |-> IF w \in 16..31 THEN {} ELSE 0..31]],
      [num_rows |-> 1500, valid |-> 540,
       valid_map |-> [w \in 0..46 |-> IF w \in 0..15 THEN 0..31
                                      ELSE IF w = 46 THEN 0..27 ELSE {}]] }

\* the DATA stream of n INT values 7, 8, ... in RLE v1 runs of at most 130
LongRuns(n) ==
    [k \in 1..((n + 129) \div 130) |->
        V1Run("i32", Min(130, n - 130 * (k - 1)), 1, BVFromInt(7 + 130 * (k - 1), 32))]

\* the state in which gpuDecodeOrcColumnData finds such a chunk
InitLong ==
    /\ phase = "data_start"
    /\ \E m \in LongMaps :
       \E p \in {RunChunk("INT", "DIRECT", LongRuns(m.valid))} :
          /\ inp = [first_row |-> 0, max_num_rows |-> 70000,
                    junk |-> 0..63, values |-> p.values, kinds |-> p.kinds,
                    present |-> <<>>]
          /\ gmem = [chunks |-> [type_kind |-> p.type_kind,
                                 encoding_kind |-> p.encoding_kind,
                                 start_row |-> 0, num_rows |-> m.num_rows,
                                 skip_count |-> 0, null_count |-> m.num_rows - m.valid,
                                 dictionary_start |-> 0, dict_len |-> 0,
                                 data2 |-> NoStream,
                                 valid_map_base |-> "valid_map",
                                 data |-> [bytes |-> p.bytes, ofs |-> 0, pad |-> 0],
                                 present |-> [bytes |-> <<125, 0>>, ofs |-> 0,
                                              pad |-> 0]],
                     valid_map |-> m.valid_map,
                     column_data |-> [r \in {} |-> {}]]
    /\ chunk = Nothing
    /\ top = Nothing
    /\ bs = NoBs
    /\ bs2 = NoBs
    /\ vals = NoVals
    /\ out = Nothing

InitRowWindow == InitPresent \/ InitLong

SpecRowWindow == InitRowWindow /\ [][NextChunk]_vars

\* the data loop has run at least one iteration
InDataLoop == phase \in {"data_loop", "done"} /\ DOMAIN top.row_ofs_plus1 # {}

\* C31: after every iteration of the data loop nrows is at most 0xFE00,
\* every element of row_ofs_plus1 that was stored is at most 0xFE00 (so it
\* is the value that was stored, not a truncation of it), every index that
\* was stored to is below 2 * NTHREADS and max_vals, the bound of the indexes
\* read, is at most NTHREADS
C31_RowOffsetsFit ==
    phase \in {"data_loop", "done"} =>
        /\ top.nrows <= 65024
        /\ top.max_vals <= NTHREADS
        /\ \A i \in DOMAIN top.row_ofs_plus1 :
              /\ i >= 0 /\ i < 2 * NTHREADS
              /\ top.row_ofs_plus1[i] >= 0 /\ top.row_ofs_plus1[i] <= 65024

\* an iteration that took the whole of 0xFE00 rows and stored the offsets of
\* rows at their end
C31_Witness ==
    /\ InDataLoop
    /\ top.nrows = 65024 /\ top.cur_row = 65024
    /\ \E i \in DOMAIN top.row_ofs_plus1 : top.row_ofs_plus1[i] > 65000

\* an iteration whose passes stored beyond index NTHREADS: 512 values of the
\* first pass and 1024 of the second
StoredBeyondNTHREADS ==
    /\ InDataLoop
    /\ gmem.chunks.num_rows = 2048
    /\ \E i \in DOMAIN top.row_ofs_plus1 : i > NTHREADS + 500

----------------------------------------------------------------------------
(* Specification SpecSkip: chunks with valid rows before first_row go        *)
(* through both kernels                                                      *)

\* chunks of 8 and 16 rows whose PRESENT bytes read the same from either end,
\* with the values 5, 10, 15, ... in direct RLE v2 runs of two values each
SkipMenu ==
    LET pairs(n) == [k \in 1..n |->
                        V2Direct("i32", 7, <<BVFromInt(10 * k - 5, 32), BVFromInt(10 * k, 32)>>)]
    IN  { PresentChunk(RunChunk("INT", "DIRECT_V2", pairs(4)), <<ByteLit(<<255>>)>>, 8),
          PresentChunk(RunChunk("INT", "DIRECT_V2", pairs(3)), <<ByteLit(<<189>>)>>, 8),
          PresentChunk(RunChunk("INT", "DIRECT_V2", pairs(7)), <<ByteLit(<<255, 126>>)>>, 16) }

InitSkip ==
    /\ phase = "null_start"
    /\ \E p \in SkipMenu, start_row \in StartRows,
          first_row \in FirstRows, max_num_rows \in MaxNumRows, junk \in Junk :
          /\ inp = [first_row |-> first_row, max_num_rows |-> max_num_rows,
                    junk |-> junk, values |-> p.chunk.values, kinds |-> p.chunk.kinds,
                    present |-> p.present]
          /\ gmem = [chunks |-> [type_kind |-> p.chunk.type_kind,
                                 encoding_kind |-> p.chunk.encoding_kind,
                                 start_row |-> start_row, num_rows |-> p.chunk.num_rows,
                                 skip_count |-> 0, null_count |-> 0,
                                 dictionary_start |-> 0, dict_len |-> 0,
                                 data2 |-> NoStream,
                                 valid_map_base |-> "valid_map",
                                 data |-> [bytes |-> p.chunk.bytes, ofs |-> 0, pad |-> 0],
                                 present |-> [bytes |-> p.chunk.present, ofs |-> 0,
                                              pad |-> 0]],
                     valid_map |-> [w \in {} |-> {}],
                     column_data |-> [r \in {} |-> {}]]
    /\ chunk = Nothing
    /\ top = Nothing
    /\ bs = NoBs
    /\ bs2 = NoBs
    /\ vals = NoVals
    /\ out = Nothing

SpecSkip == InitSkip /\ [][NextChunk]_vars

\* the values of the DATA stream differ from one another
ValuesDistinct ==
    \A j, k \in 1..Len(inp.values) : j # k => inp.values[j] # inp.values[k]

\* the values of the DATA stream that belong to the valid rows of the chunk
\* before first_row
SkippedValues ==
    LET before == Min(Max(inp.first_row - gmem.chunks.start_row, 0), gmem.chunks.num_rows)
    IN  {RowValue(k) : k \in 0..(ValuesBefore(before) - 1)}

\* C32: the values of the valid rows before first_row are decoded but never
\* written to the output: when the data phase is over no output row holds
\* one of them
C32_SkippedValuesNotWritten ==
    (phase = "done" /\ ~NoPresent /\ PresentReadsSame /\ ValuesDistinct)
        => \A i \in DOMAIN gmem.column_data : gmem.column_data[i] \notin SkippedValues

\* The count the data kernel works with is the one of the descriptor in
\* global memory, which the null kernel never writes: it is 0 in every
\* iteration, so no value slot is ever a skipped one.
SkipCountZeroInDataPhase ==
    phase \in {"data_loop", "done"} => chunk.skip_count = 0

\* the advance never lets skip_count grow or fall below 0
SkipCountNeverGrows ==
    [][phase = "data_loop" =>
          chunk'.skip_count >= 0 /\ chunk'.skip_count <= chunk.skip_count]_vars

\* the data phase of a chunk with valid rows before first_row is over and
\* has written to the output
SkippedValuesSeen ==
    /\ phase = "done" /\ ~NoPresent /\ PresentReadsSame /\ ValuesDistinct
    /\ SkippedValues # {}
    /\ DOMAIN gmem.column_data # {}

----------------------------------------------------------------------------
(* Specification SpecBytestream: the callers of bytestream_flush_bytes and   *)
(* bytestream_fill consume a stream step by step                             *)

\* numbers of 128-byte literal blocks in the stream: none, one, eight (inside
\* the buffer) and 70 (9030 bytes, longer than the buffer)
BytestreamBlocks == {0, 1, 8, 70}
\* how the stream is consumed: by Byte_RLE, or as raw FLOAT or DOUBLE values,
\* and the number of values asked for in every step
BytestreamCallers ==
    { [kind |-> "BYTE", numvals |-> 128], [kind |-> "BYTE", numvals |-> 1024],
      [kind |-> "FLOAT", numvals |-> 100], [kind |-> "FLOAT", numvals |-> 1024],
      [kind |-> "DOUBLE", numvals |-> 100], [kind |-> "DOUBLE", numvals |-> 1024] }

InitBytestream ==
    /\ phase = "bytestream"
    /\ \E nb \in BytestreamBlocks, pl \in Placements, c \in BytestreamCallers :
          /\ inp = [blocks |-> nb, kind |-> c.kind, numvals |-> c.numvals]
          /\ bs = bytestream_initbuf(bytestream_init(
                     [bytes |-> Flatten([k \in 1..nb |-> LiteralBlock(k)]),
                      ofs |-> pl.ofs, pad |-> pl.pad]))
          /\ out = [from |-> bs.pos, consumed |-> 0, count |-> 0]
    /\ bs2 = NoBs
    /\ vals = NoVals
    /\ chunk = Nothing
    /\ top = Nothing
    /\ gmem = Nothing

\* one Byte_RLE invocation: the scan finds lastpos, lane 0 flushes
\* lastpos - pos bytes (line 806), the block fills fill_count words at the old
\* position (line 835)
BytestreamByteRLE ==
    /\ phase = "bytestream" /\ inp.kind = "BYTE"
    /\ bs.pos < bs.len
    /\ \E st \in {byterle_scan(bs, inp.numvals, scan_maxpos(bs),
                     [lastpos |-> bs.pos, numvals |-> 0, runs |-> <<>>])} :
       \E f \in {bytestream_flush_bytes(bs, st.lastpos - bs.pos)} :
          /\ st.numvals > 0
          /\ bs' = bytestream_fill(f.bs, bs.pos, f.count)
          /\ vals' = byterle_expand(bs, st.runs, 1, NoVals)
          /\ out' = [from |-> bs.pos, consumed |-> st.lastpos - bs.pos, count |-> f.count]
    /\ UNCHANGED <<phase, inp, bs2, chunk, top, gmem>>

\* one read of raw FLOAT or DOUBLE values (lines 1322-1355): numvals is cut
\* to what the buffer holds, numvals * 4 or numvals * 8 bytes are flushed
BytestreamRaw ==
    /\ phase = "bytestream" /\ inp.kind \in {"FLOAT", "DOUBLE"}
    /\ bs.pos < bs.len
    /\ \E sz \in {ElemBits(inp.kind) \div 8} :
       \E n \in {Min(inp.numvals, (BYTESTREAM_BFRSZ - 8) \div sz)} :
       \E f \in {bytestream_flush_bytes(bs, n * sz)} :
          /\ bs' = bytestream_fill(f.bs, bs.pos, f.count)
          /\ vals' = [t \in 0..(n - 1) |->
                        IF sz = 4 THEN bytestream_readu32(bs, bs.pos + t * 4)
                        ELSE bytestream_readu64(bs, bs.pos + t * 8)]
          /\ out' = [from |-> bs.pos, consumed |-> n * sz, count |-> f.count]
    /\ UNCHANGED <<phase, inp, bs2, chunk, top, gmem>>

NextBytestream == BytestreamByteRLE \/ BytestreamRaw

SpecBytestream == InitBytestream /\ [][NextBytestream]_vars

\* C33: after a flush of consumed bytes at position from and the fill with
\* the count it returned, pos is min(from + consumed, len) and not beyond
\* len, the count is (pos div 8) - (from div 8) and at most NTHREADS, every
\* word of the count is in its buffer slot (one lane copied it), and every
\* word the buffer holds is a whole word of the stream with an index below
\* len div 8
C33_FlushAndFill ==
    phase = "bytestream" =>
        /\ bs.pos = Min(out.from + out.consumed, bs.len)
        /\ bs.pos <= bs.len
        /\ out.count = (bs.pos \div 8) - (out.from \div 8)
        /\ out.count <= NTHREADS
        /\ \A w \in (out.from \div 8)..((bs.pos \div 8) - 1) :
              /\ (w % (BYTESTREAM_BFRSZ \div 8)) \in DOMAIN bs.buf
              /\ bs.buf[w % (BYTESTREAM_BFRSZ \div 8)] = w
        /\ \A s \in DOMAIN bs.buf :
              /\ bs.buf[s] >= 0 /\ bs.buf[s] < bs.len \div 8
              /\ bs.buf[s] % (BYTESTREAM_BFRSZ \div 8) = s

\* a flush that was cut at the end of the stream: fewer bytes than the
\* caller consumed were left
C33_Witness ==
    /\ phase = "bytestream"
    /\ out.consumed > 0
    /\ bs.pos = bs.len /\ out.from + out.consumed > bs.len
    /\ out.count > 0

\* a flush of 8184 bytes: 1023 words, all but one lane copy
FlushOfWholeBuffer ==
    /\ phase = "bytestream"
    /\ out.consumed = BYTESTREAM_BFRSZ - 8 /\ out.count = NTHREADS - 1

\* a fill beyond the first 8 KiB of a stream
FillBeyondBuffer ==
    /\ phase = "bytestream"
    /\ \E s \in DOMAIN bs.buf : bs.buf[s] >= BYTESTREAM_BFRSZ \div 8

\* the last byte position (from the aligned base) of the range the stream
\* may be read in: (start + len - 1) | 7
LastValidByte(strm) == ((strm.ofs + Len(strm.bytes) - 1) \div 8) * 8 + 7

\* the bulk reads so far took only bytes inside [start & ~7, (start+len-1) | 7]
ReadsInsideRange(b) ==
    \A s \in DOMAIN b.buf : 8 * b.buf[s] >= 0 /\ 8 * b.buf[s] + 7 <= LastValidByte(b.strm)

\* C34: after bytestream_init and whatever was read since, len is a multiple
\* of 8, the bytes of the stream are at the positions from base & 7 on (pos
\* starts there), every word that was read in bulk lies inside
\* [start & ~7, (start+len-1) | 7], and of a stream of length 0 nothing is read
C34_InitAndReads ==
    phase = "bytestream" =>
        /\ bs.len % 8 = 0
        /\ bs.pos >= 0
        /\ (out.consumed = 0 /\ Len(bs.strm.bytes) > 0) => bs.pos = bs.strm.ofs
        /\ IF Len(bs.strm.bytes) > 0 THEN ReadsInsideRange(bs)
           ELSE DOMAIN bs.buf = {} /\ bs.len = 0

\* The same without the last part: it holds for the streams that have bytes,
\* and for the empty ones len is the multiple of 8 that covers base & 7.
InitAndReadsOfNonEmpty ==
    phase = "bytestream" =>
        /\ bs.len = ((Len(bs.strm.bytes) + bs.strm.ofs + 7) \div 8) * 8
        /\ (out.consumed = 0 /\ Len(bs.strm.bytes) > 0) => bs.pos = bs.strm.ofs
        /\ Len(bs.strm.bytes) > 0 => ReadsInsideRange(bs)

\* a stream of length 0 whose address is not a multiple of 8: the initial
\* fill has read the 8 bytes around it
EmptyStreamRead ==
    /\ phase = "bytestream"
    /\ Len(bs.strm.bytes) = 0 /\ bs.strm.ofs = 5
    /\ bs.pos = 0 /\ bs.len = 8 /\ DOMAIN bs.buf = {0}

----------------------------------------------------------------------------
(* Specification SpecScan: the run-discovery scans of Integer_RLEv1,         *)
(* Integer_RLEv2 and Byte_RLE over streams that reach their limits           *)

\* a literal block of 128 RLE v1 values of 64 bits; varint_length takes nine
\* bytes for each (two groups of three continuation bytes and an end byte,
\* then the byte it steps over)
V1WideLiterals ==
    <<128>> \o [i \in 1..1152 |->
                  IF i % 9 = 0 THEN 0 ELSE IF i % 9 \in {4, 8} THEN 1 ELSE 129]
\* an RLE v2 direct run of 512 values of 64 bits: 01wwwwwn.nnnnnnnn, w = 31
V2WideDirect == <<127, 255>> \o [i \in 1..4096 |-> (3 * i) % 256]

\* the streams: the decoder, the element type, the bytes of each run, and the
\* bytes that are left of a last run the stream ends in
ScanMenu ==
    LET x(n) == BVFromNat(n)
    IN  { \* 40 runs of three values: more runs than the run table holds
          [dec |-> "byte", T |-> "u8",
           runs |-> [k \in 1..40 |-> ByteRun(3, k).bytes], tail |-> <<>>],
          \* a literal block of 5, then a block of 20 of which 2 bytes exist
          [dec |-> "byte", T |-> "u8",
           runs |-> <<ByteLit(<<1, 2, 3, 4, 5>>).bytes>>, tail |-> <<236, 1, 2>>],
          [dec |-> "byte", T |-> "u8",
           runs |-> [k \in 1..9 |-> LiteralBlock(k)], tail |-> <<>>],
          [dec |-> "rlev1", T |-> "i32",
           runs |-> [k \in 1..6 |-> V1Run("i32", 3 + k, k, x(10 * k)).bytes]
                    \o <<V1Lit("i32", <<x(1), x(20), x(7)>>).bytes>>,
           tail |-> <<>>],
          \* a run, then a literal block of 20 of which 2 bytes exist
          [dec |-> "rlev1", T |-> "u32",
           runs |-> <<V1Run("u32", 4, 1, x(7)).bytes>>, tail |-> <<236, 1, 2>>],
          \* eight blocks of 1153 bytes: the eighth ends beyond the window
          [dec |-> "rlev1", T |-> "i64",
           runs |-> [k \in 1..8 |-> V1WideLiterals], tail |-> <<>>],
          [dec |-> "rlev2", T |-> "u32",
           runs |-> [k \in 1..8 |-> V2Direct("u32", 7, <<x(k)>>).bytes]
                    \o <<V2ShortRepeat("u32", 1, 3, x(9)).bytes,
                          V2Direct("u32", 7, <<x(10), x(20)>>).bytes>>,
           tail |-> <<>>],
          \* a direct run of 20 values of which 3 bytes exist
          [dec |-> "rlev2", T |-> "i32",
           runs |-> <<V2Direct("i32", 7, <<x(10), x(20)>>).bytes>>,
           tail |-> <<78, 19, 1, 2, 3>>],
          \* two runs of 4098 bytes: the second ends beyond the window
          [dec |-> "rlev2", T |-> "i64",
           runs |-> <<V2WideDirect, V2WideDirect>>, tail |-> <<>>] }

\* the offsets in the stream at which a run of the writer ends
RunEnds(runs) == {Len(Flatten(SubSeq(runs, 1, k))) : k \in 0..Len(runs)}

\* the maxvals of an invocation: fewer values than the shortest run has,
\* some, and one per lane
ScanMaxvals == {2, 100, NTHREADS}

InitScan ==
    /\ phase = "scan"
    /\ \E m \in ScanMenu, pl \in Placements :
          /\ inp = [dec |-> m.dec, T |-> m.T, ends |-> RunEnds(m.runs)]
          /\ bs = bytestream_initbuf(bytestream_init(
                     [bytes |-> Flatten(m.runs) \o m.tail, ofs |-> pl.ofs,
                      pad |-> pl.pad]))
          /\ out = [maxvals |-> 0, num |-> 0, numvals |-> 0, numruns |-> 0,
                    from |-> bs.pos, lastpos |-> bs.pos]
    /\ bs2 = NoBs
    /\ vals = NoVals
    /\ chunk = Nothing
    /\ top = Nothing
    /\ gmem = Nothing

\* bytes of the stream are left at pos
StreamLeft == bs.pos < bs.strm.ofs + Len(bs.strm.bytes)

\* what lane 0 found (numvals, numruns, lastpos) and what the invocation d
\* returned
Scanned(mv, numvals, numruns, lastpos, d) ==
    /\ bs' = d.bs
    /\ vals' = d.vals
    /\ out' = [maxvals |-> mv, num |-> d.num, numvals |-> numvals,
               numruns |-> numruns, from |-> bs.pos, lastpos |-> lastpos]
    /\ UNCHANGED <<phase, inp, bs2, chunk, top, gmem>>

ScanRLEv1 ==
    /\ phase = "scan" /\ inp.dec = "rlev1" /\ StreamLeft
    /\ \E mv \in ScanMaxvals :
       \E st \in {rlev1_scan(bs, TypeBits(inp.T), mv, scan_maxpos(bs),
                     [lastpos |-> bs.pos, numvals |-> 0, run_data |-> <<>>,
                      v |-> NoVals])} :
       \E d \in {rlev1_decode(bs, inp.T, st, rlev1_expand(st.run_data, 1, st.v))} :
          Scanned(mv, st.numvals, Len(st.run_data), st.lastpos, d)

ScanRLEv2 ==
    /\ phase = "scan" /\ inp.dec = "rlev2" /\ StreamLeft
    /\ \E mv \in ScanMaxvals :
       \E st \in {rlev2_scan(bs, TypeBits(inp.T), mv, scan_maxpos(bs),
                     [lastpos |-> bs.pos, numvals |-> 0, runs_loc |-> <<>>,
                      v |-> NoVals])} :
       \E d \in {[bs   |-> flush_and_fill(bs, st.lastpos),
                  vals |-> rlev2_expand(bs, inp.T, st, 1,
                              [j \in DOMAIN st.v |-> BVFromNat(st.v[j])]),
                  num  |-> st.numvals]} :
          Scanned(mv, st.numvals, Len(st.runs_loc), st.lastpos, d)

ScanByteRLE ==
    /\ phase = "scan" /\ inp.dec = "byte" /\ StreamLeft
    /\ \E mv \in ScanMaxvals :
       \E st \in {byterle_scan(bs, mv, scan_maxpos(bs),
                     [lastpos |-> bs.pos, numvals |-> 0, runs |-> <<>>])} :
       \E d \in {[bs   |-> flush_and_fill(bs, st.lastpos),
                  vals |-> byterle_expand(bs, st.runs, 1, NoVals),
                  num  |-> st.numvals]} :
          Scanned(mv, st.numvals, Len(st.runs), st.lastpos, d)

NextScan == ScanRLEv1 \/ ScanRLEv2 \/ ScanByteRLE

SpecScan == InitScan /\ [][NextScan]_vars

\* C35: after an invocation the runs the scan accepted hold at most maxvals
\* values, are at most as many as the run table of the decoder has slots
\* (NWARPS*12, NTHREADS, NWARPS), and end at or before min(len, pos +
\* BYTESTREAM_BFRSZ - 8) of the position the scan started at; within the
\* bytes of the stream the scans whose headers hold the length of the run
\* (Byte_RLE, and Integer_RLEv2 for short repeat and direct runs) stop where
\* a run of the writer ends; when no run was accepted the invocation
\* returned 0 and the position is unchanged
C35_ScanLimits ==
    phase = "scan" =>
        /\ out.numvals <= out.maxvals
        /\ out.numruns <= (IF inp.dec = "rlev1" THEN NWARPS * 12
                           ELSE IF inp.dec = "rlev2" THEN NTHREADS ELSE NWARPS)
        /\ out.lastpos <= Min(bs.len, out.from + (BYTESTREAM_BFRSZ - 8))
        /\ (inp.dec # "rlev1" /\ out.lastpos <= bs.strm.ofs + Len(bs.strm.bytes))
              => (out.lastpos - bs.strm.ofs) \in inp.ends
        /\ out.num = out.numvals
        /\ bs.pos = out.lastpos
        /\ out.numvals = 0 => (out.num = 0 /\ bs.pos = out.from)

\* the first run was rejected for maxvals with bytes of the stream left
C35_Witness ==
    /\ phase = "scan" /\ out.maxvals = 2 /\ out.num = 0 /\ StreamLeft
    /\ bs.pos = out.from /\ bs.pos > bs.strm.ofs

\* Byte_RLE stopped at a full run table with values and bytes to spare
ScanTableFull ==
    /\ phase = "scan" /\ inp.dec = "byte" /\ out.numruns = NWARPS
    /\ out.numvals < out.maxvals /\ StreamLeft
    /\ bs.pos + 2 <= Min(bs.len, out.from + (BYTESTREAM_BFRSZ - 8))

\* a run was rejected because it ends beyond pos + BYTESTREAM_BFRSZ - 8,
\* though the stream holds it and maxvals values were not reached
ScanWindowEnd ==
    /\ phase = "scan" /\ inp.T = "i64"
    /\ out.maxvals = NTHREADS /\ out.numvals > 0
    /\ out.from + (BYTESTREAM_BFRSZ - 8) < bs.len
    /\ \E n \in {IF inp.dec = "rlev1" THEN [vals |-> 128, bytes |-> 1153]
                  ELSE [vals |-> 512, bytes |-> 4098]} :
          /\ out.numvals + n.vals <= out.maxvals
          /\ out.lastpos + n.bytes > out.from + (BYTESTREAM_BFRSZ - 8)
          /\ out.lastpos + n.bytes <= bs.strm.ofs + Len(bs.strm.bytes)

\* a run was rejected because the stream ends inside it
ScanStreamEnd ==
    /\ phase = "scan" /\ out.maxvals = NTHREADS /\ out.num = 0 /\ StreamLeft
    /\ bs.pos > bs.strm.ofs
    /\ bs.pos + 21 > bs.len

----------------------------------------------------------------------------
(* Specification SpecNoPresent: chunks without a PRESENT stream, of up to   *)
(* 100 rows, go through null decoding and data decoding for a row window    *)

NoPresentMenu ==
    LET i(n) == BVFromInt(n, 32)
    IN  { RunChunk("INT", "DIRECT", <<V1Run("i32", 70, 1, i(3))>>),
          RunChunk("INT", "DIRECT_V2",
                   <<V2Direct("i32", 7, <<i(10), i(20)>>), V2ShortRepeat("i32", 1, 5, i(9))>>),
          RunChunk("BYTE", "DIRECT", <<ByteRun(100, 5)>>),
          BoolChunk(<<ByteRun(5, 165)>>, 37),
          RawChunk("FLOAT", [k \in 1..33 |-> i(k)]) }

\* the first row of the chunk and the row windows: windows that hold the
\* chunk, that cut it at either end, and that miss it
NoPresentStartRows == {0, 7, 40}
NoPresentFirstRows == {0, 9, 50}
NoPresentMaxNumRows == {5, 40, 200}

InitNoPresent ==
    /\ phase = "null_start"
    /\ \E c \in NoPresentMenu, start_row \in NoPresentStartRows,
          first_row \in NoPresentFirstRows, max_num_rows \in NoPresentMaxNumRows,
          junk \in Junk :
          /\ inp = [first_row |-> first_row, max_num_rows |-> max_num_rows,
                    junk |-> junk, values |-> c.values, kinds |-> c.kinds]
          /\ gmem = [chunks |-> [type_kind |-> c.type_kind,
                                 encoding_kind |-> c.encoding_kind,
                                 start_row |-> start_row, num_rows |-> c.num_rows,
                                 skip_count |-> 0, null_count |-> 0,
                                 dictionary_start |-> 0, dict_len |-> 0,
                                 data2 |-> NoStream,
                                 valid_map_base |-> "valid_map",
                                 data |-> [bytes |-> c.bytes, ofs |-> 0, pad |-> 0],
                                 present |-> [bytes |-> <<>>, ofs |-> 0, pad |-> 0]],
                     valid_map |-> [w \in {} |-> {}],
                     column_data |-> [r \in {} |-> {}]]
    /\ chunk = Nothing
    /\ top = Nothing
    /\ bs = NoBs
    /\ bs2 = NoBs
    /\ vals = NoVals
    /\ out = Nothing

SpecNoPresent == InitNoPresent /\ [][NextChunk]_vars

\* the rows of the chunk that lie in the row window
RowsInWindow ==
    {r \in gmem.chunks.start_row..(gmem.chunks.start_row + gmem.chunks.num_rows - 1) :
        r >= inp.first_row /\ r < inp.first_row + inp.max_num_rows}

\* C36: for a chunk without a PRESENT stream, once the null phase is over the
\* validity bit of every row of the chunk inside the window is 1 and
\* null_count is 0; in the data phase every iteration takes one value for
\* each row: value slot t belongs to row t of the iteration and the rows
\* consumed are as many as the values
C36_NoPresentAllValid ==
    NoPresent =>
        /\ phase \in {"data_start", "data_loop", "done"} =>
              /\ \A r \in RowsInWindow : valid_bit(gmem.valid_map, r - inp.first_row) = 1
              /\ gmem.chunks.null_count = 0
        /\ InDataLoop =>
              /\ top.nrows = top.max_vals
              /\ \A t \in 0..(top.max_vals - 1) : ofs_at(top.row_ofs_plus1, t) = t + 1

\* a chunk of more than 64 rows whose first rows lie before the window and
\* whose last rows lie behind it went through both phases
C36_Witness ==
    /\ phase = "done" /\ NoPresent /\ InDataLoop
    /\ gmem.chunks.num_rows > 64
    /\ gmem.chunks.start_row < inp.first_row
    /\ inp.first_row + inp.max_num_rows
          < gmem.chunks.start_row + gmem.chunks.num_rows
    /\ Cardinality(RowsInWindow) = 40
    /\ inp.junk = {}

----------------------------------------------------------------------------
(* Specification SpecDataLoop: chunks of every kind, with and without a     *)
(* PRESENT stream, with DATA streams that are whole, cut short or empty, go *)
(* through the kernels; SpecDataLoopFair lets them run on                   *)

\* chunks without a PRESENT stream whose DATA stream does not hold the rows:
\* [type_kind, encoding_kind, bytes, num_rows]
GarbledMenu ==
    { \* a direct run of 20 values of which 3 bytes exist
      [type_kind |-> "INT", encoding_kind |-> "DIRECT_V2",
       bytes |-> <<78, 19, 1, 2, 3>>, num_rows |-> 20],
      \* 5 values for 40 rows
      [type_kind |-> "INT", encoding_kind |-> "DIRECT",
       bytes |-> <<2, 1, 7>>, num_rows |-> 40],
      [type_kind |-> "LONG", encoding_kind |-> "DIRECT",
       bytes |-> <<255, 255, 255, 255, 255, 255>>, num_rows |-> 9],
      \* no bytes at all
      [type_kind |-> "BYTE", encoding_kind |-> "DIRECT", bytes |-> <<>>, num_rows |-> 5],
      [type_kind |-> "BOOLEAN", encoding_kind |-> "DIRECT",
       bytes |-> <<255, 165>>, num_rows |-> 37],
      \* 2 bytes for 3 rows
      [type_kind |-> "FLOAT", encoding_kind |-> "DIRECT", bytes |-> <<1, 2>>, num_rows |-> 3],
      [type_kind |-> "DOUBLE", encoding_kind |-> "DIRECT",
       bytes |-> [k \in 1..20 |-> k], num_rows |-> 70] }

InitGarbled ==
    /\ phase = "null_start"
    /\ \E c \in GarbledMenu, pl \in Placements, start_row \in StartRows,
          first_row \in FirstRows, max_num_rows \in MaxNumRows :
          /\ inp = [first_row |-> first_row, max_num_rows |-> max_num_rows,
                    junk |-> IF pl.pad = 0 THEN {} ELSE 0..63]
          /\ gmem = [chunks |-> [type_kind |-> c.type_kind,
                                 encoding_kind |-> c.encoding_kind,
                                 start_row |-> start_row, num_rows |-> c.num_rows,
                                 skip_count |-> 0, null_count |-> 0,
                                 dictionary_start |-> 0, dict_len |-> 0,
                                 data2 |-> NoStream,
                                 valid_map_base |-> "valid_map",
                                 data |-> [bytes |-> c.bytes, ofs |-> pl.ofs, pad |-> pl.pad],
                                 present |-> [bytes |-> <<>>, ofs |-> 0, pad |-> 0]],
                     valid_map |-> [w \in {} |-> {}],
                     column_data |-> [r \in {} |-> {}]]
    /\ chunk = Nothing
    /\ top = Nothing
    /\ bs = NoBs
    /\ bs2 = NoBs
    /\ vals = NoVals
    /\ out = Nothing

InitDataLoop == InitPresent \/ InitNoPresent \/ InitSecondary \/ InitGarbled

NextDataLoop ==
    \/ DictStart \/ DictBatch \/ DictFinish \/ NullBlock
    \/ NullStart \/ NullBatch \/ NullFinish
    \/ DataStart \/ DataBatch \/ DataBatchSecondary

SpecDataLoop == InitDataLoop /\ [][NextDataLoop]_vars

\* the kernels run on until the data loop of the chunk is left
SpecDataLoopFair ==
    /\ SpecDataLoop
    /\ ([]<>(phase = "done") \/ []<><<NextDataLoop>>_vars)

\* an iteration of the data loop advances cur_row, or lowers skip_count, or
\* moves the position of the DATA stream or of the secondary stream on
IterationProgress ==
    [][phase = "data_loop" =>
          \/ top'.cur_row > top.cur_row
          \/ chunk'.skip_count < chunk.skip_count
          \/ bs'.pos > bs.pos
          \/ bs2'.pos > bs2.pos]_vars

\* the loop is left with cur_row at or behind end_row
LeftAtEndRow == [](phase = "done" => top.cur_row >= top.end_row)

----------------------------------------------------------------------------
(* The row cursor of the data loop, under SpecRowWindow                     *)

\* C38: in the data phase cur_row is at most end_row; the rows an iteration
\* has accumulated in nrows are at most the rows that were left before it
\* (end_row minus the cur_row it started at), and the loop is left with
\* cur_row = end_row
C38_CurRowWithinEndRow ==
    /\ (phase \in {"data_loop", "done"} /\ gmem.chunks.start_row <= top.end_row)
          => top.cur_row <= top.end_row
    /\ (phase = "done" /\ InDataLoop) => top.cur_row = top.end_row

\* the loop is left with cur_row at or behind end_row, and an iteration
\* accumulates at most the rows that were left rounded up to whole passes of
\* NTHREADS rows
CurRowOvershoot ==
    (InDataLoop /\ gmem.chunks.start_row <= top.end_row)
        => /\ top.cur_row - top.nrows < top.end_row
           /\ top.cur_row < top.end_row + NTHREADS
           /\ phase = "done" => top.cur_row >= top.end_row

\* the loop was left behind end_row: of 1500 rows 1100 were left at row 400,
\* and the iteration took two passes of NTHREADS rows
CurRowBehindEndRow ==
    /\ phase = "done" /\ InDataLoop
    /\ top.end_row = 1500 /\ top.cur_row = 2448 /\ top.nrows = 2048
    /\ top.max_vals = 140

----------------------------------------------------------------------------
(* The output slots the data phase writes, under SpecDataLoop               *)

\* the output slots written so far: column_data starts without any
WrittenSlots == DOMAIN gmem.column_data

\* slot i stands for a row of the chunk inside the row window
SlotInWindowAndChunk(i) ==
    /\ i >= 0 /\ i < inp.max_num_rows
    /\ i + inp.first_row >= gmem.chunks.start_row
    /\ i + inp.first_row < gmem.chunks.start_row + gmem.chunks.num_rows

\* C39: every output slot the data phase has written belongs to a row r of
\* the chunk with first_row <= r < first_row + max_num_rows, and, when the
\* chunk has a PRESENT stream, to a row whose validity bit is 1: the slots of
\* rows outside the window, of other chunks and of null rows are untouched
C39_WritesOnlyWindowRows ==
    \A i \in WrittenSlots :
        /\ SlotInWindowAndChunk(i)
        /\ ~NoPresent => valid_bit(gmem.valid_map, i) = 1

\* the part that holds: a written slot is inside the window and belongs to a
\* row of the chunk
WritesInsideWindowAndChunk == \A i \in WrittenSlots : SlotInWindowAndChunk(i)

\* the slot of a null row was written
NullRowWritten ==
    /\ phase = "done" /\ ~NoPresent
    /\ \E i \in WrittenSlots : valid_bit(gmem.valid_map, i) = 0 /\ inp.junk = {}

----------------------------------------------------------------------------
(* Specification SpecPrefix: the lanes of a block run lengths_to_positions  *)
(* round by round, in every order the hardware may take them within a round *)

\* elements of vals[] the block looks at (numvals goes up to it)
PrefixLanes == 9

\* vals[] before the call, as numbers per element, and the element width
PrefixInputs ==
    { [w |-> 16, v |-> [t \in 0..(PrefixLanes - 1) |-> t % 2]],
      [w |-> 16, v |-> [t \in 0..(PrefixLanes - 1) |-> 3 * t + 1]],
      [w |-> 16, v |-> [t \in 0..(PrefixLanes - 1) |-> 65535 - 7000 * t]],
      [w |-> 32, v |-> [t \in 0..(PrefixLanes - 1) |-> 2147483647 - 1000 * t]] }

InitPrefix ==
    /\ phase = "prefix"
    /\ \E numvals \in 1..PrefixLanes, i \in PrefixInputs :
          /\ inp = [numvals |-> numvals, w |-> i.w,
                    v |-> [t \in DOMAIN i.v |-> BVFromNat(i.v[t])]]
          /\ vals = inp.v
    /\ top = [n |-> 1, done |-> {}]
    /\ out = [reads |-> {}, writes |-> {}]
    /\ bs = NoBs
    /\ bs2 = NoBs
    /\ chunk = Nothing
    /\ gmem = Nothing

\* the lanes that pass if ((t & n) && (t < numvals)) in the round of n
PrefixActive(n) == {t \in 0..(inp.numvals - 1) : BitSet(t, n)}

\* lane t, past the barrier of the round, does vals[t] += vals[(t & ~n) | (n - 1)];
\* out keeps the elements read from other lanes' slots and the elements
\* written in this round
PrefixLane(t) ==
    /\ phase = "prefix" /\ top.n < inp.numvals
    /\ t \in PrefixActive(top.n) \ top.done
    /\ \E src \in {ScanSource(t, top.n)} :
          /\ vals' = [vals EXCEPT ![t] = BVAdd(vals[t], vals[src], inp.w)]
          /\ out' = [reads |-> out.reads \cup {<<t, src>>},
                     writes |-> out.writes \cup {t}]
    /\ top' = [top EXCEPT !.done = @ \cup {t}]
    /\ UNCHANGED <<phase, inp, bs, bs2, chunk, gmem>>

\* every lane has done the round: n <<= 1, and __syncthreads() of the next
\* round
PrefixBarrier ==
    /\ phase = "prefix" /\ top.n < inp.numvals
    /\ PrefixActive(top.n) \subseteq top.done
    /\ top' = [n |-> 2 * top.n, done |-> {}]
    /\ out' = [reads |-> {}, writes |-> {}]
    /\ UNCHANGED <<phase, inp, bs, bs2, vals, chunk, gmem>>

\* the loop ends when n >= numvals
PrefixReturn ==
    /\ phase = "prefix" /\ ~(top.n < inp.numvals)
    /\ phase' = "prefix_done"
    /\ UNCHANGED <<inp, bs, bs2, vals, out, chunk, top, gmem>>

NextPrefix ==
    \/ \E t \in 0..(PrefixLanes - 1) : PrefixLane(t)
    \/ PrefixBarrier
    \/ PrefixReturn

SpecPrefix == InitPrefix /\ [][NextPrefix]_vars

\* v[0] + ... + v[k] in w bits
RECURSIVE RunningSum(_, _, _)
RunningSum(v, k, w) ==
    IF k = 0 THEN v[0] ELSE BVAdd(RunningSum(v, k - 1, w), v[k], w)

\* C40: in a round no lane reads an element of another lane that is written
\* in the same round; after the call vals[k] is the sum of the elements
\* 0..k it held before for every k < numvals (which is also what the
\* round-by-round operator lengths_to_positions gives), and the elements
\* from numvals on are as before
C40_PrefixSumNoRace ==
    /\ phase = "prefix" => \A r \in out.reads : r[2] \notin out.writes /\ r[2] # r[1]
    /\ phase = "prefix_done" =>
          /\ \A k \in 0..(inp.numvals - 1) : vals[k] = RunningSum(inp.v, k, inp.w)
          /\ \A k \in inp.numvals..(PrefixLanes - 1) : vals[k] = inp.v[k]
          /\ vals = lengths_to_positions(inp.v, inp.numvals, inp.w)

\* seven elements (not a power of two) were summed, with a sum that wraps in
\* the 16-bit element
C40_Witness ==
    /\ phase = "prefix_done" /\ inp.numvals = 7 /\ inp.w = 16
    /\ BVToNat(inp.v[0]) = 65535
    /\ BVToNat(vals[6]) = (7 * 65535 - 7000 * 21) % 65536
    /\ vals[7] = inp.v[7]

\* two lanes of a round have both run, each reading below its own slot
PrefixRoundUnderWay ==
    /\ phase = "prefix" /\ top.n = 2 /\ inp.numvals = PrefixLanes
    /\ Cardinality(out.writes) >= 2 /\ Cardinality(out.reads) >= 2
    /\ top.done # PrefixActive(top.n)

============================================================================
